---- MODULE Spec2Model ----
(***************************************************************************)
(* Model of the GCP assessment suite: the per-domain assessment pipeline   *)
(* (Command Runner, Scope Resolver, Per-Project Collector, Parallel        *)
(* Dispatcher, Exporter) of gcp_org_compute_inventory.py,                  *)
(* gcp_networking_assessment.py, gcp_storage_assessment.py and             *)
(* gcp_gke_assessment.py, the orchestrator of gcp_master_assessment.py and *)
(* the setup validator of validate_org_setup.py.                           *)
(*                                                                         *)
(* Specifications: Spec (one assessment run), MasterSpec (the              *)
(* orchestrator), CollectorSpec (one collector call on every small cloud,  *)
(* malformed resources included), ScopeSpec (command line and environment  *)
(* up to the end of the Scope Resolver), SuiteSpec (Spec or MasterSpec),   *)
(* ExportSpec (the export of one project of a multi-type domain),          *)
(* ValidatorSpec (the setup validator), WaitSpec (a worker thread and the  *)
(* subprocesses it waits for, with fairness), KubeSpec (two GKE collectors *)
(* sharing one kubeconfig).                                                *)
(*                                                                         *)
(* Environment assumptions (the external tools are black boxes):           *)
(*  - in the first five specifications the CLI binaries exist, print       *)
(*    decodable text and end, so subprocess.run ends in exactly one of:    *)
(*    timeout, non-zero exit, zero exit + stdout; ValidatorSpec adds a     *)
(*    program that cannot be started, WaitSpec a process that never exits; *)
(*  - when gcloud prints JSON it is well formed for the command: a         *)
(*    describe of project X prints X's record, a list prints a list of     *)
(*    project records without repeated ids;                                *)
(*  - writing an output file succeeds.                                     *)
(***************************************************************************)
EXTENDS Integers, Sequences, FiniteSets, TLC

\* ---------------------------------------------------------------- bounds
MaxIds == 2          \* longest --project-ids list
MaxListed == 2       \* longest list printed by `gcloud projects list`
MaxRes == 1          \* most resources one project holds
MaxWorkers == 2      \* largest --max-workers value tried
MaxItems == 2        \* most resources of a project in one collector call
MaxExported == 3     \* most resources of the project of a one-project export

ProjIds == {"pa", "pb"}
Domains == {"compute", "networking", "storage", "gke"}

\* ------------------------------------------------------- sequence helpers
Range(s) == {s[k] : k \in 1..Len(s)}

SeqsUpTo(S, n) == UNION {[1..k -> S] : k \in 0..n}

RECURSIVE Concat(_)
Concat(ss) == IF ss = <<>> THEN <<>> ELSE Head(ss) \o Concat(Tail(ss))

\* ------------------------------------------------------- Command Runner
\* What subprocess.run can end in.  stdout is modelled by its class:
\* "" (empty), "ws" (whitespace only), "bad" (non-empty, not JSON),
\* "json" (a JSON document whose parsed value is val).
Timeout == [kind |-> "timeout", text |-> "", val |-> <<>>]
NonZero == [kind |-> "nonzero", text |-> "", val |-> <<>>]
OkEmpty == [kind |-> "ok", text |-> "", val |-> <<>>]
OkBlank == [kind |-> "ok", text |-> "ws", val |-> <<>>]
OkBad == [kind |-> "ok", text |-> "bad", val |-> <<>>]
OkJson(v) == [kind |-> "ok", text |-> "json", val |-> v]

NoDataOutcomes == {Timeout, NonZero, OkEmpty, OkBlank, OkBad}

\* The three ways a call fails.
FailureOutcomes == {Timeout, NonZero, OkBad}

\* str.strip(): whitespace-only text becomes the empty text.
strip(text) == IF text = "ws" THEN "" ELSE text

\* json.loads: the parsed value, or JSONDecodeError.
json_loads(o) ==
  IF o.text = "json" THEN [ok |-> TRUE, val |-> <<o.val>>]
  ELSE [ok |-> FALSE, val |-> <<>>]

\* The `{}` returned on every failure; a parsed value v is <<v>>.
EmptyResult == <<>>

\* A runner that tests stdout for emptiness without stripping it.
run_gcloud_command_nostrip(dom, o) ==
  IF o.kind = "timeout"
    THEN [result |-> EmptyResult, errors |-> 1, raised |-> FALSE]
  ELSE IF o.kind = "nonzero"
    THEN [result |-> EmptyResult, errors |-> 2, raised |-> FALSE]
  ELSE IF o.text = ""
    THEN [result |-> EmptyResult, errors |-> 0, raised |-> FALSE]
  ELSE IF json_loads(o).ok
    THEN [result |-> json_loads(o).val, errors |-> 0, raised |-> FALSE]
  ELSE [result |-> EmptyResult,
        errors |-> IF dom = "compute" THEN 2 ELSE 1, raised |-> FALSE]

\* A runner without the except clause for JSONDecodeError.
run_gcloud_command_propagates(dom, o) ==
  IF o.kind = "timeout"
    THEN [result |-> EmptyResult, errors |-> 1, raised |-> FALSE]
  ELSE IF o.kind = "nonzero"
    THEN [result |-> EmptyResult, errors |-> 2, raised |-> FALSE]
  ELSE IF strip(o.text) = ""
    THEN [result |-> EmptyResult, errors |-> 0, raised |-> FALSE]
  ELSE IF json_loads(o).ok
    THEN [result |-> json_loads(o).val, errors |-> 0, raised |-> FALSE]
  ELSE [result |-> EmptyResult, errors |-> 0, raised |-> TRUE]

\* run_gcloud_command: result, number of error-level log lines, and whether
\* an exception leaves the function.
run_gcloud_command(dom, o) ==
  IF o.kind = "timeout"
    THEN [result |-> EmptyResult, errors |-> 1, raised |-> FALSE]
  ELSE IF o.kind = "nonzero"
    THEN [result |-> EmptyResult, errors |-> 2, raised |-> FALSE]
  ELSE IF strip(o.text) = ""
    THEN [result |-> EmptyResult, errors |-> 0, raised |-> FALSE]
  ELSE IF json_loads(o).ok
    THEN [result |-> json_loads(o).val, errors |-> 0, raised |-> FALSE]
  ELSE [result |-> EmptyResult,
        errors |-> IF dom = "compute" THEN 2 ELSE 1, raised |-> FALSE]

\* Python truthiness of a runner result holding a list or a dict.
Truthy(r) == r # EmptyResult /\ r[1] # <<>>

\* One logged invocation.
Call(phase, verb, arg, dom, o) ==
  [phase |-> phase, verb |-> verb, arg |-> arg, outcome |-> o,
   result |-> run_gcloud_command(dom, o).result,
   errors |-> run_gcloud_command(dom, o).errors,
   raised |-> run_gcloud_command(dom, o).raised]

\* ------------------------------------------------------- Python dicts
\* A dict is the sequence of its <<key, value>> pairs in insertion order.
Dict(keys, V(_)) == [k \in 1..Len(keys) |-> <<keys[k], V(keys[k])>>]

Keys(d) == {d[k][1] : k \in 1..Len(d)}

\* list(d.keys())
KeyList(d) == [k \in 1..Len(d) |-> d[k][1]]

\* d.get(key, default)
Get(d, key, default) ==
  IF key \in Keys(d)
    THEN d[CHOOSE k \in 1..Len(d) : d[k][1] = key][2]
    ELSE default

Map(s, F(_)) == [k \in 1..Len(s) |-> F(s[k])]

\* ------------------------------------------- record keys and CSV headers
\* gcp_gke_assessment.py lines 187-219
cluster_info_keys ==
  <<"organization_id", "project_id", "project_name", "cluster_name",
    "location", "location_type", "status", "kubernetes_version",
    "node_version", "node_count", "machine_type", "disk_size_gb",
    "network", "subnetwork", "cluster_ipv4_cidr", "services_ipv4_cidr",
    "autopilot_enabled", "private_cluster", "master_authorized_networks",
    "network_policy_enabled", "pod_security_policy_enabled",
    "workload_identity_enabled", "binary_authorization_enabled",
    "shielded_nodes_enabled", "release_channel", "maintenance_window",
    "addons_config", "resource_labels", "creation_time", "endpoint",
    "initial_cluster_version">>

\* gcp_gke_assessment.py lines 246-250
cluster_details_keys ==
  <<"total_vcpus", "total_memory_gb", "node_pools_count">>

\* gcp_gke_assessment.py lines 314-345
pool_info_keys ==
  <<"organization_id", "project_id", "project_name", "cluster_name",
    "cluster_location", "node_pool_name", "status", "node_count",
    "machine_type", "disk_size_gb", "disk_type", "image_type",
    "vcpus_per_node", "memory_gb_per_node", "total_vcpus",
    "total_memory_gb", "preemptible", "spot", "autoscaling_enabled",
    "min_node_count", "max_node_count", "auto_upgrade", "auto_repair",
    "node_version", "locations", "network_tags", "labels", "taints",
    "service_account", "oauth_scopes">>

\* gcp_gke_assessment.py lines 397-409
resource_info_keys ==
  <<"organization_id", "project_id", "project_name", "cluster_name",
    "cluster_location", "resource_type", "resource_name", "namespace",
    "creation_timestamp", "labels", "annotations">>

\* gcp_gke_assessment.py lines 454-464
cluster_fieldnames ==
  <<"organization_id", "project_id", "project_name", "cluster_name",
    "location", "location_type", "status", "kubernetes_version",
    "node_version", "node_count", "machine_type", "disk_size_gb",
    "network", "subnetwork", "cluster_ipv4_cidr", "services_ipv4_cidr",
    "autopilot_enabled", "private_cluster", "master_authorized_networks",
    "network_policy_enabled", "pod_security_policy_enabled",
    "workload_identity_enabled", "binary_authorization_enabled",
    "shielded_nodes_enabled", "release_channel", "maintenance_window",
    "addons_config", "resource_labels", "creation_time", "endpoint",
    "initial_cluster_version", "total_vcpus", "total_memory_gb",
    "node_pools_count">>

\* gcp_gke_assessment.py lines 471-479
pool_fieldnames ==
  <<"organization_id", "project_id", "project_name", "cluster_name",
    "cluster_location", "node_pool_name", "status", "node_count",
    "machine_type", "disk_size_gb", "disk_type", "image_type",
    "vcpus_per_node", "memory_gb_per_node", "total_vcpus",
    "total_memory_gb", "preemptible", "spot", "autoscaling_enabled",
    "min_node_count", "max_node_count", "auto_upgrade", "auto_repair",
    "node_version", "locations", "network_tags", "labels", "taints",
    "service_account", "oauth_scopes">>

\* gcp_networking_assessment.py lines 190-200
vpc_info_keys ==
  <<"organization_id", "project_id", "project_name", "vpc_name",
    "vpc_mode", "auto_create_subnetworks", "mtu", "creation_timestamp",
    "description">>

\* gcp_networking_assessment.py lines 219-232
subnet_info_keys ==
  <<"organization_id", "project_id", "project_name", "subnet_name",
    "network_name", "region", "ip_cidr_range", "gateway_address",
    "private_ip_google_access", "secondary_ranges", "creation_timestamp",
    "description">>

\* gcp_networking_assessment.py lines 251-268
firewall_info_keys ==
  <<"organization_id", "project_id", "project_name", "rule_name",
    "network_name", "direction", "priority", "action", "source_ranges",
    "destination_ranges", "source_tags", "target_tags",
    "protocols_ports", "disabled", "creation_timestamp", "description">>

\* gcp_networking_assessment.py lines 288-299
lb_info_http_keys ==
  <<"organization_id", "project_id", "project_name", "lb_name",
    "lb_type", "default_service", "host_rules_count",
    "path_matchers_count", "creation_timestamp", "description">>

\* gcp_networking_assessment.py lines 313-324
lb_info_network_keys ==
  <<"organization_id", "project_id", "project_name", "lb_name",
    "lb_type", "ip_address", "port_range", "target",
    "creation_timestamp", "description">>

\* gcp_networking_assessment.py lines 358-369
nat_info_keys ==
  <<"organization_id", "project_id", "project_name", "nat_name",
    "router_name", "region", "source_subnetwork_ip_ranges",
    "nat_ip_allocate_option", "min_ports_per_vm", "creation_timestamp">>

\* gcp_networking_assessment.py lines 388-398
vpn_info_keys ==
  <<"organization_id", "project_id", "project_name", "vpn_gateway_name",
    "region", "network", "vpn_interfaces_count", "creation_timestamp",
    "description">>

\* gcp_networking_assessment.py lines 417-428
dns_info_keys ==
  <<"organization_id", "project_id", "project_name", "zone_name",
    "dns_name", "visibility", "dnssec_state", "name_servers",
    "creation_time", "description">>

\* gcp_networking_assessment.py lines 441-444
vpc_fieldnames ==
  <<"organization_id", "project_id", "project_name", "vpc_name",
    "vpc_mode", "auto_create_subnetworks", "mtu", "creation_timestamp",
    "description">>

\* gcp_networking_assessment.py lines 451-455
subnet_fieldnames ==
  <<"organization_id", "project_id", "project_name", "subnet_name",
    "network_name", "region", "ip_cidr_range", "gateway_address",
    "private_ip_google_access", "secondary_ranges", "creation_timestamp",
    "description">>

\* gcp_networking_assessment.py lines 462-467
firewall_fieldnames ==
  <<"organization_id", "project_id", "project_name", "rule_name",
    "network_name", "direction", "priority", "action", "source_ranges",
    "destination_ranges", "source_tags", "target_tags",
    "protocols_ports", "disabled", "creation_timestamp", "description">>

\* gcp_networking_assessment.py lines 483-487
nat_fieldnames ==
  <<"organization_id", "project_id", "project_name", "nat_name",
    "router_name", "region", "source_subnetwork_ip_ranges",
    "nat_ip_allocate_option", "min_ports_per_vm", "creation_timestamp">>

\* gcp_networking_assessment.py lines 494-497
vpn_fieldnames ==
  <<"organization_id", "project_id", "project_name", "vpn_gateway_name",
    "region", "network", "vpn_interfaces_count", "creation_timestamp",
    "description">>

\* gcp_networking_assessment.py lines 504-507
dns_fieldnames ==
  <<"organization_id", "project_id", "project_name", "zone_name",
    "dns_name", "visibility", "dnssec_state", "name_servers",
    "creation_time", "description">>

\* gcp_org_compute_inventory.py lines 702-733
instance_data_keys ==
  <<"organization_id", "project_id", "project_name", "project_number",
    "instance_name", "zone", "region", "status", "machine_type", "vcpus",
    "memory_gb", "total_storage_gb", "disk_count", "storage_types",
    "boot_disk_type", "boot_disk_size_gb", "internal_ip", "external_ip",
    "os_family", "os_version", "os_architecture", "boot_disk_image",
    "runtime_hours_30d", "uptime_percentage_30d", "creation_timestamp",
    "labels", "tags", "service_accounts", "preemptible",
    "deletion_protection">>

\* gcp_org_compute_inventory.py lines 741-753
utilization_data_keys ==
  <<"organization_id", "project_id", "project_name", "instance_name",
    "zone", "region", "cpu_avg_30d", "cpu_max_30d", "memory_avg_30d",
    "memory_max_30d", "data_collection_date">>

\* gcp_org_compute_inventory.py lines 772-782
inventory_fieldnames ==
  <<"organization_id", "project_id", "project_name", "project_number",
    "instance_name", "zone", "region", "status", "machine_type", "vcpus",
    "memory_gb", "total_storage_gb", "disk_count", "storage_types",
    "boot_disk_type", "boot_disk_size_gb", "internal_ip", "external_ip",
    "os_family", "os_version", "os_architecture", "boot_disk_image",
    "runtime_hours_30d", "uptime_percentage_30d", "creation_timestamp",
    "labels", "tags", "service_accounts", "preemptible",
    "deletion_protection">>

\* gcp_org_compute_inventory.py lines 797-801
utilization_fieldnames ==
  <<"organization_id", "project_id", "project_name", "instance_name",
    "zone", "region", "cpu_avg_30d", "cpu_max_30d", "memory_avg_30d",
    "memory_max_30d", "data_collection_date">>

\* gcp_storage_assessment.py lines 228-248
bucket_details_keys ==
  <<"organization_id", "project_id", "project_name", "bucket_name",
    "location", "location_type", "storage_class", "versioning_enabled",
    "lifecycle_rules_count", "public_access_prevention",
    "uniform_bucket_level_access", "retention_policy", "encryption_type",
    "cors_enabled", "labels", "creation_time", "updated_time",
    "iam_members_count", "website_config">>

\* gcp_storage_assessment.py lines 330-342
usage_info_keys ==
  <<"organization_id", "project_id", "project_name", "bucket_name",
    "total_size_bytes", "total_size_gb", "total_size_tb", "object_count",
    "storage_class", "location", "assessment_date">>

\* gcp_storage_assessment.py lines 362-368
bucket_fieldnames ==
  <<"organization_id", "project_id", "project_name", "bucket_name",
    "location", "location_type", "storage_class", "versioning_enabled",
    "lifecycle_rules_count", "public_access_prevention",
    "uniform_bucket_level_access", "retention_policy", "encryption_type",
    "cors_enabled", "labels", "creation_time", "updated_time",
    "iam_members_count", "website_config">>

\* gcp_storage_assessment.py lines 375-379
usage_fieldnames ==
  <<"organization_id", "project_id", "project_name", "bucket_name",
    "total_size_bytes", "total_size_gb", "total_size_tb", "object_count",
    "storage_class", "location", "assessment_date">>

\* gcp_gke_assessment.py lines 415-437: resource_info.update({...})
resource_variant_keys(resource_type) ==
  CASE resource_type = "deployments" ->
         <<"replicas", "ready_replicas", "available_replicas", "strategy_type">>
    [] resource_type = "services" ->
         <<"service_type", "cluster_ip", "external_ip", "ports">>
    [] resource_type = "pods" ->
         <<"phase", "node_name", "restart_policy", "containers_count">>
    [] OTHER -> <<>>

\* ------------------------------------------------ Per-Project Collectors
\* The project dict built by the Scope Resolver.
Project(j) ==
  [project_id |-> j.projectId, name |-> j.name, state |-> j.lifecycleState,
   number |-> j.projectNumber]

\* self.organization_id or 'N/A'
OrgOrNA(org) == IF org = "" THEN "N/A" ELSE org

\* Value of field f of a record about resource res of project proj.  Fields
\* copied from the resource's JSON are kept opaque as <<f, res>>.
FieldValue(org, proj, res, f) ==
  CASE f = "organization_id" -> OrgOrNA(org)
    [] f = "project_id" -> proj.project_id
    [] f = "project_name" -> proj.name
    [] f = "project_number" -> proj.number
    [] OTHER -> <<f, res>>

\* The list a collector iterates over: the parsed list, or nothing.
Listed(dom, o) ==
  IF Truthy(run_gcloud_command(dom, o).result)
    THEN run_gcloud_command(dom, o).result[1]
    ELSE <<>>

\* ---- compute
InstanceStatuses == {"RUNNING", "TERMINATED"}

\* An instance of `gcloud compute instances list`; wellformed is FALSE when
\* a field the loop body indexes (zone, machineType, status) is missing.
InstanceJsons ==
  [name : 1..MaxRes, status : InstanceStatuses, wellformed : BOOLEAN]

InstanceLists ==
  {l \in SeqsUpTo(InstanceJsons, MaxRes) : \A k \in 1..Len(l) : l[k].name = k}

instance_data(org, proj, inst) ==
  Dict(instance_data_keys,
       LAMBDA f : IF f = "instance_name" THEN inst.name
                  ELSE IF f = "status" THEN inst.status
                  ELSE FieldValue(org, proj, inst.name, f))

utilization_data(org, proj, inst) ==
  Dict(utilization_data_keys,
       LAMBDA f : IF f = "instance_name" THEN inst.name
                  ELSE FieldValue(org, proj, inst.name, f))

get_project_compute_instances(o) == Listed("compute", o)

\* A collector that reports a project without instances as one empty row.
process_project_instances_placeholder(org, proj, o) ==
  LET instances == get_project_compute_instances(o)
      processed == SelectSeq(instances, LAMBDA inst : inst.wellformed)
      running == SelectSeq(processed, LAMBDA inst : inst.status = "RUNNING")
      none == [name |-> 0, status |-> "NONE", wellformed |-> TRUE]
  IN [inventory |-> IF instances = <<>> THEN <<instance_data(org, proj, none)>>
                    ELSE Map(processed, LAMBDA inst : instance_data(org, proj, inst)),
      utilization |-> Map(running, LAMBDA inst : utilization_data(org, proj, inst))]

\* A collector that asks for the utilization of every listed instance,
\* whatever its status and whether or not its inventory record was built.
process_project_instances_unfiltered(org, proj, o) ==
  LET instances == get_project_compute_instances(o)
      processed == SelectSeq(instances, LAMBDA inst : inst.wellformed)
  IN [inventory |-> Map(processed, LAMBDA inst : instance_data(org, proj, inst)),
      utilization |-> Map(instances, LAMBDA inst : utilization_data(org, proj, inst))]

\* process_project_instances: the instances whose loop body completes give an
\* inventory record each, the RUNNING ones among them a utilization record.
process_project_instances(org, proj, o) ==
  LET instances == get_project_compute_instances(o)
      processed == SelectSeq(instances, LAMBDA inst : inst.wellformed)
      running == SelectSeq(processed, LAMBDA inst : inst.status = "RUNNING")
  IN [inventory |-> Map(processed, LAMBDA inst : instance_data(org, proj, inst)),
      utilization |-> Map(running, LAMBDA inst : utilization_data(org, proj, inst))]

ComputeWorlds == NoDataOutcomes \cup {OkJson(l) : l \in InstanceLists}

\* The same with up to n instances.
ComputeClouds(n) ==
  NoDataOutcomes
  \cup {OkJson(l) :
          l \in {m \in SeqsUpTo([name : 1..n, status : InstanceStatuses,
                                 wellformed : BOOLEAN], n) :
                   \A k \in 1..Len(m) : m[k].name = k}}

\* ---- storage
\* str(n) of the small counts the records hold.
str(n) == CASE n = 0 -> "0" [] n = 1 -> "1" [] n = 2 -> "2"

\* What `gsutil lifecycle get` ends in for a bucket: a non-zero exit, no
\* output, text that is not JSON ("... has no lifecycle configuration"), or
\* a JSON object without or with rules.  A dict is a sequence of pairs.
LifecycleOutcomes ==
  {NonZero, OkEmpty, OkBad, OkJson(<<>>)}
  \cup {OkJson(<< <<"rule", [k \in 1..n |-> k]>> >>) : n \in 0..MaxItems}

\* A bucket of `gcloud storage buckets list`; wellformed is FALSE when its
\* JSON makes get_bucket_details raise (a null where a dict is read).
BucketJsons ==
  [name : 1..MaxItems, lifecycle : LifecycleOutcomes, wellformed : BOOLEAN]

BucketClouds(n) ==
  {l \in SeqsUpTo(BucketJsons, n) : \A k \in 1..Len(l) : l[k].name = k}

\* The bucket lists of the pipeline's runs.
BucketLists ==
  {l \in BucketClouds(MaxRes) :
     \A k \in 1..Len(l) : l[k].wellformed /\ l[k].lifecycle = OkBad}

\* run_gsutil_command: the stripped stdout, "" after a non-zero exit.
run_gsutil_command(o) ==
  IF o.kind = "nonzero" THEN [text |-> "", val |-> <<>>]
  ELSE [text |-> strip(o.text), val |-> o.val]

\* A getter that takes a reply that is not JSON for one rule.
get_bucket_lifecycle_lines(o) ==
  LET result == run_gsutil_command(o)
  IN IF result.text = "" THEN <<>>
     ELSE IF json_loads(result).ok THEN Get(json_loads(result).val[1], "rule", <<>>)
     ELSE <<1>>

\* get_bucket_lifecycle: the 'rule' list of the parsed reply; [] when the
\* reply is empty or json.loads raises (bare except).
get_bucket_lifecycle(o) ==
  LET result == run_gsutil_command(o)
  IN IF result.text # "" /\ json_loads(result).ok
       THEN Get(json_loads(result).val[1], "rule", <<>>)
       ELSE <<>>

\* get_bucket_details
bucket_details(org, proj, bucket) ==
  Dict(bucket_details_keys,
       LAMBDA f : IF f = "bucket_name" THEN bucket.name
                  ELSE IF f = "lifecycle_rules_count"
                    THEN str(Len(get_bucket_lifecycle(bucket.lifecycle)))
                  ELSE FieldValue(org, proj, bucket.name, f))

get_gcs_buckets(org, proj, o) ==
  Map(Listed("storage", o), LAMBDA b : bucket_details(org, proj, b))

\* get_gcs_buckets has no try around get_bucket_details: the exception of
\* one bucket leaves the function.
get_gcs_buckets_raises(o) ==
  \E b \in Range(Listed("storage", o)) : ~b.wellformed

usage_info(org, proj, bucket) ==
  Dict(usage_info_keys,
       LAMBDA f : IF f = "bucket_name" THEN Get(bucket, "bucket_name", 0)
                  ELSE FieldValue(org, proj, Get(bucket, "bucket_name", 0), f))

get_bucket_usage(org, proj, buckets) ==
  Map(buckets, LAMBDA b : usage_info(org, proj, b))

\* assess_project_storage: an exception inside the try leaves both lists as
\* they are at that point.
assess_project_storage(org, proj, o) ==
  IF get_gcs_buckets_raises(o)
    THEN [buckets |-> <<>>, bucket_usage |-> <<>>]
    ELSE [buckets |-> get_gcs_buckets(org, proj, o),
          bucket_usage |-> get_bucket_usage(org, proj, get_gcs_buckets(org, proj, o))]

StorageClouds(n) == NoDataOutcomes \cup {OkJson(l) : l \in BucketClouds(n)}

StorageWorlds == NoDataOutcomes \cup {OkJson(l) : l \in BucketLists}

\* ---- networking
\* What the project holds: items[k] is resource number k.  A forwarding rule
\* carries its loadBalancingScheme, a router the number of NAT configs its
\* describe call prints.  wellformed is FALSE when the item's JSON makes the
\* loop body that reads it raise (a null where a dict or a string is read).
NetKinds ==
  {"networks", "subnets", "firewall-rules", "url-maps", "forwarding-rules",
   "routers", "vpn-gateways", "managed-zones"}

NetItems ==
  {[kind |-> c, scheme |-> "", nats |-> 0, wellformed |-> b] :
     c \in NetKinds \ {"forwarding-rules", "routers"}, b \in BOOLEAN}
  \cup {[kind |-> "forwarding-rules", scheme |-> s, nats |-> 0, wellformed |-> b] :
          s \in {"EXTERNAL", "INTERNAL_MANAGED"}, b \in BOOLEAN}
  \cup {[kind |-> "routers", scheme |-> "", nats |-> n, wellformed |-> b] :
          n \in 0..1, b \in BOOLEAN}

\* A project's cloud: at most n resources and at most one list command that
\* fails.
NetworkingClouds(n) ==
  {w \in [items : SeqsUpTo(NetItems, n), fail : NetKinds \cup {"none"},
          how : FailureOutcomes] :
     w.fail = "none" => w.how = NonZero}

\* The clouds of the pipeline's runs.
NetworkingWorlds ==
  {w \in NetworkingClouds(MaxRes) :
     \A k \in 1..Len(w.items) : w.items[k].wellformed}

\* Resource numbers of kind c, as the list command for c prints them.
Numbered(items, P(_)) ==
  SelectSeq([k \in 1..Len(items) |-> [n |-> k, item |-> items[k]]],
            LAMBDA e : P(e.item))

ListOutcome(w, c) ==
  IF w.fail = c THEN w.how
  ELSE OkJson(Numbered(w.items, LAMBDA it : it.kind = c))

NetRecord(keys, org, proj, e) ==
  Dict(keys, LAMBDA f : FieldValue(org, proj, e.n, f))

get_vpc_networks(org, proj, o) ==
  Map(Listed("networking", o), LAMBDA e : NetRecord(vpc_info_keys, org, proj, e))

get_subnets(org, proj, o) ==
  Map(Listed("networking", o), LAMBDA e : NetRecord(subnet_info_keys, org, proj, e))

get_firewall_rules(org, proj, o) ==
  Map(Listed("networking", o), LAMBDA e : NetRecord(firewall_info_keys, org, proj, e))

get_load_balancers(org, proj, o_url_maps, o_forwarding_rules) ==
  Map(Listed("networking", o_url_maps),
      LAMBDA e : NetRecord(lb_info_http_keys, org, proj, e))
  \o Map(SelectSeq(Listed("networking", o_forwarding_rules),
                   LAMBDA e : e.item.scheme \in {"EXTERNAL", "INTERNAL"}),
         LAMBDA e : NetRecord(lb_info_network_keys, org, proj, e))

\* One record per NAT config of each router whose describe call prints any.
get_nat_gateways(org, proj, o) ==
  Concat(Map(Listed("networking", o),
             LAMBDA e : [k \in 1..e.item.nats |->
                           NetRecord(nat_info_keys, org, proj, e)]))

get_vpn_gateways(org, proj, o) ==
  Map(Listed("networking", o), LAMBDA e : NetRecord(vpn_info_keys, org, proj, e))

get_dns_zones(org, proj, o) ==
  Map(Listed("networking", o), LAMBDA e : NetRecord(dns_info_keys, org, proj, e))

\* The getters in the order assess_project_networking calls them, each with
\* the list commands whose items it reads.
NetSteps ==
  <<[type |-> "vpcs", lists |-> {"networks"}],
    [type |-> "subnets", lists |-> {"subnets"}],
    [type |-> "firewall_rules", lists |-> {"firewall-rules"}],
    [type |-> "load_balancers", lists |-> {"url-maps", "forwarding-rules"}],
    [type |-> "nat_gateways", lists |-> {"routers"}],
    [type |-> "vpn_gateways", lists |-> {"vpn-gateways"}],
    [type |-> "dns_zones", lists |-> {"managed-zones"}]>>

\* No getter has a try around its loop body: the exception of one item
\* leaves the getter.
getter_raises(w, step) ==
  \E c \in step.lists :
    \E e \in Range(Listed("networking", ListOutcome(w, c))) : ~e.item.wellformed

\* Position of the getter of a resource type in that order.
StepOf(type) == CHOOSE a \in 1..Len(NetSteps) : NetSteps[a].type = type

\* assess_project_networking: every type starts as [] and is assigned by its
\* getter; an exception leaves the try block, so the type being collected and
\* every later one stay [].
assess_project_networking(org, proj, w) ==
  LET raising == {a \in 1..Len(NetSteps) : getter_raises(w, NetSteps[a])}
      kept(type, v) == IF \E a \in raising : a <= StepOf(type) THEN <<>> ELSE v
  IN [vpcs |-> kept("vpcs", get_vpc_networks(org, proj, ListOutcome(w, "networks"))),
      subnets |-> kept("subnets", get_subnets(org, proj, ListOutcome(w, "subnets"))),
      firewall_rules |->
        kept("firewall_rules",
             get_firewall_rules(org, proj, ListOutcome(w, "firewall-rules"))),
      load_balancers |->
        kept("load_balancers",
             get_load_balancers(org, proj, ListOutcome(w, "url-maps"),
                                ListOutcome(w, "forwarding-rules"))),
      nat_gateways |->
        kept("nat_gateways", get_nat_gateways(org, proj, ListOutcome(w, "routers"))),
      vpn_gateways |->
        kept("vpn_gateways",
             get_vpn_gateways(org, proj, ListOutcome(w, "vpn-gateways"))),
      interconnects |-> <<>>,
      dns_zones |->
        kept("dns_zones", get_dns_zones(org, proj, ListOutcome(w, "managed-zones")))]

\* ---- GKE
WorkloadKinds == <<"deployments", "services", "pods">>

\* A cluster: how many node pools it has and which workload kinds it runs
\* (one item of each), at most n of them in all.  wellformed is FALSE when
\* the cluster's JSON makes the loop body of get_gke_clusters raise.
ClusterJsons(n) ==
  {s \in [pools : 0..n, kinds : SUBSET Range(WorkloadKinds),
          wellformed : BOOLEAN] :
     s.pools + Cardinality(s.kinds) <= n}

\* The clusters of the pipeline's runs.
ClusterShapes == {s \in ClusterJsons(MaxRes) : s.wellformed}

GkeCmds ==
  {"clusters", "node-pools", "get-credentials", "deployments", "services", "pods"}

\* A project's cloud: its clusters and at most one command that fails;
\* get-credentials and kubectl are run without a timeout.
GKEClouds(shapes, n) ==
  {w \in [clusters : SeqsUpTo(shapes, n),
          fail : GkeCmds \cup {"none"}, how : FailureOutcomes] :
     /\ w.fail = "none" => w.how = NonZero
     /\ w.fail \in {"get-credentials", "deployments", "services", "pods"}
          => w.how # Timeout}

GKEWorlds == GKEClouds(ClusterShapes, MaxRes)

cluster_info(org, proj, e) ==
  Dict(cluster_info_keys \o cluster_details_keys,
       LAMBDA f : IF f = "cluster_name" THEN e.n
                  ELSE FieldValue(org, proj, e.n, f))

get_gke_clusters(org, proj, o) ==
  Map(Listed("gke", o), LAMBDA e : cluster_info(org, proj, e))

\* get_gke_clusters has no try around its loop body: the exception of one
\* cluster leaves the function.
get_gke_clusters_raises(o) ==
  \E e \in Range(Listed("gke", o)) : ~e.item.wellformed

get_cluster_node_pools(org, proj, cluster_name, o) ==
  Map(Listed("gke", o),
      LAMBDA p : Dict(pool_info_keys,
                      LAMBDA f : IF f = "cluster_name" THEN cluster_name
                                 ELSE FieldValue(org, proj, <<cluster_name, p>>, f)))

\* kubectl get <resource_type>: any exception (non-zero exit, stdout that is
\* not JSON) gives the empty list.
get_kubernetes_resources(resource_type, org, proj, cluster_name, o) ==
  IF o.kind = "ok" /\ json_loads(o).ok
    THEN Map(o.val,
             LAMBDA item :
               Dict(resource_info_keys \o resource_variant_keys(resource_type),
                    LAMBDA f : IF f = "cluster_name" THEN cluster_name
                               ELSE IF f = "resource_type" THEN resource_type
                               ELSE FieldValue(org, proj, <<cluster_name, item>>, f)))
    ELSE <<>>

\* cred is the outcome of get-credentials, k8s[kind] of each kubectl call.
get_cluster_workloads(org, proj, cluster_name, cred, k8s) ==
  IF cred.kind # "ok" THEN <<>>
  ELSE Concat([k \in 1..Len(WorkloadKinds) |->
                 get_kubernetes_resources(WorkloadKinds[k], org, proj,
                                          cluster_name, k8s[WorkloadKinds[k]])])

GkeOutcome(w, c, val) == IF w.fail = c THEN w.how ELSE OkJson(val)

assess_project_gke(org, proj, w) ==
  LET listed == [k \in 1..Len(w.clusters) |-> [n |-> k, item |-> w.clusters[k]]]
      clusters == get_gke_clusters(org, proj, GkeOutcome(w, "clusters", listed))
      shape(c) == w.clusters[Get(c, "cluster_name", 0)]
  IN IF get_gke_clusters_raises(GkeOutcome(w, "clusters", listed))
       THEN [clusters |-> <<>>, node_pools |-> <<>>, workloads |-> <<>>]
     ELSE
     [clusters |-> clusters,
      node_pools |->
        Concat(Map(clusters,
                   LAMBDA c : get_cluster_node_pools(
                     org, proj, Get(c, "cluster_name", 0),
                     GkeOutcome(w, "node-pools", [k \in 1..shape(c).pools |-> k])))),
      workloads |->
        Concat(Map(clusters,
                   LAMBDA c : get_cluster_workloads(
                     org, proj, Get(c, "cluster_name", 0),
                     GkeOutcome(w, "get-credentials", <<>>),
                     [kind \in Range(WorkloadKinds) |->
                        GkeOutcome(w, kind,
                                   IF kind \in shape(c).kinds THEN <<1>> ELSE <<>>)])))]

\* ---- all four
\* The clouds a single collector call is tried on: up to MaxItems resources,
\* any of them malformed.
Clouds(dom) ==
  CASE dom = "compute" -> ComputeClouds(MaxItems)
    [] dom = "storage" -> StorageClouds(MaxItems)
    [] dom = "networking" -> NetworkingClouds(MaxItems)
    [] dom = "gke" -> GKEClouds(ClusterJsons(MaxItems), MaxItems)

Worlds(dom) ==
  CASE dom = "compute" -> ComputeWorlds
    [] dom = "storage" -> StorageWorlds
    [] dom = "networking" -> NetworkingWorlds
    [] dom = "gke" -> GKEWorlds

\* What the project's collector returns for each resource type.
collect(dom, org, proj, w) ==
  CASE dom = "compute" -> process_project_instances(org, proj, w)
    [] dom = "storage" -> assess_project_storage(org, proj, w)
    [] dom = "networking" -> assess_project_networking(org, proj, w)
    [] dom = "gke" -> assess_project_gke(org, proj, w)

\* ------------------------------------------------------------ the cloud
ProjectJson(id, state) ==
  [projectId |-> id, name |-> <<"name", id>>, lifecycleState |-> state,
   projectNumber |-> <<"number", id>>]

LifecycleStates == {"ACTIVE", "DELETE_REQUESTED"}

DescribeOutcomes(id) ==
  NoDataOutcomes \cup {OkJson(<<ProjectJson(id, s)>>) : s \in LifecycleStates}

ProjectLists ==
  {l \in SeqsUpTo(ProjIds \X LifecycleStates, MaxListed) :
     \A a, b \in 1..Len(l) : a # b => l[a][1] # l[b][1]}

ListOutcomes ==
  NoDataOutcomes \cup
  {OkJson([k \in 1..Len(l) |-> ProjectJson(l[k][1], l[k][2])]) : l \in ProjectLists}

\* --------------------------------------------------------------- Exporter
\* DictWriter._dict_to_list: the row in fieldnames order, '' for a missing key.
dict_to_list(d, fieldnames) ==
  [j \in 1..Len(fieldnames) |-> Get(d, fieldnames[j], "")]

\* Number of leading records DictWriter accepts (no key outside fieldnames).
RECURSIVE Accepted(_, _)
Accepted(data, fieldnames) ==
  IF data = <<>> \/ ~(Keys(Head(data)) \subseteq Range(fieldnames)) THEN 0
  ELSE 1 + Accepted(Tail(data), fieldnames)

\* A writer that leaves out writeheader.
write_csv_noheader(data, fieldnames) ==
  [file |-> [k \in 1..Accepted(data, fieldnames) |-> dict_to_list(data[k], fieldnames)],
   raised |-> Accepted(data, fieldnames) < Len(data)]

\* write_csv: writeheader, then writerows, which raises ValueError at the
\* first record holding a key outside fieldnames; the rows before it stay in
\* the file.
write_csv(data, fieldnames) ==
  [file |-> <<fieldnames>> \o
            [k \in 1..Accepted(data, fieldnames) |-> dict_to_list(data[k], fieldnames)],
   raised |-> Accepted(data, fieldnames) < Len(data)]

\* A file that was never opened.
NoFile == <<>>

\* Resource types of a domain, in aggregation and export order.
TypesOf(dom) ==
  CASE dom = "compute" -> <<"inventory", "utilization">>
    [] dom = "storage" -> <<"buckets", "bucket_usage">>
    [] dom = "networking" ->
         <<"vpcs", "subnets", "firewall_rules", "load_balancers",
           "nat_gateways", "vpn_gateways", "dns_zones">>
    [] dom = "gke" -> <<"clusters", "node_pools", "workloads">>

InferredTypes == {"load_balancers", "workloads"}

\* The header each export step hands to the CSV writer.
Fieldnames(type, data) ==
  CASE type = "inventory" -> inventory_fieldnames
    [] type = "utilization" -> utilization_fieldnames
    [] type = "buckets" -> bucket_fieldnames
    [] type = "bucket_usage" -> usage_fieldnames
    [] type = "vpcs" -> vpc_fieldnames
    [] type = "subnets" -> subnet_fieldnames
    [] type = "firewall_rules" -> firewall_fieldnames
    [] type = "nat_gateways" -> nat_fieldnames
    [] type = "vpn_gateways" -> vpn_fieldnames
    [] type = "dns_zones" -> dns_fieldnames
    [] type = "clusters" -> cluster_fieldnames
    [] type = "node_pools" -> pool_fieldnames
    [] type \in InferredTypes -> KeyList(data[1])

NoFiles(dom) == [t \in Range(TypesOf(dom)) |-> NoFile]

\* The export steps in order: an empty list is skipped without a file, a
\* raising write ends the export.
RECURSIVE ExportFrom(_, _, _)
ExportFrom(types, all_data, written) ==
  IF types = <<>> THEN [files |-> written, raised |-> FALSE]
  ELSE LET t == Head(types)
           w == write_csv(all_data[t], Fieldnames(t, all_data[t]))
       IN IF all_data[t] = <<>> THEN ExportFrom(Tail(types), all_data, written)
          ELSE IF w.raised
            THEN [files |-> [written EXCEPT ![t] = w.file], raised |-> TRUE]
          ELSE ExportFrom(Tail(types), all_data, [written EXCEPT ![t] = w.file])

\* export_inventory_csv + export_utilization_csv, export_storage_data,
\* export_networking_data, export_gke_data.
export_data(dom, all_data) == ExportFrom(TypesOf(dom), all_data, NoFiles(dom))

\* ----------------------------------------------------------------- state
VARIABLES
  domain,            \* which assessment script runs
  organization_id,   \* self.organization_id ("" when absent)
  folder_id,         \* self.folder_id as tokens (<<>> when absent)
  project_ids,       \* self.project_ids
  max_workers,       \* --max-workers
  pc,                \* position of the main thread in main/run_assessment
  cmds,              \* validate/resolve commands issued through the runner
  projects,          \* the resolved projects
  tasks,             \* the submitted futures, in submission order
  handled,           \* futures whose completion was handled, in that order
  all_data,          \* the aggregate: resource type -> records
  files,             \* resource type -> rows of its CSV file (NoFile if none)
  errlog,            \* error-level lines logged by run_assessment
  success,           \* return value of run_assessment ("unset" before)
  exit_code,         \* process exit code (-1 while running)
  \* gcp_master_assessment.py
  requested_services,\* the parsed --services list
  parallel,          \* --parallel
  mpc,               \* position of the orchestrator's main thread
  runs,              \* one run_single_assessment call per requested service
  results,           \* the results dict: service -> <<record>>, <<>> if absent
  report,            \* the summary report file (<<>> while not written)
  master_exit,       \* the orchestrator's exit code (-1 while running)
  \* one call of a Per-Project Collector, on its own
  call,              \* its arguments and the cloud of its project
  cpc,               \* "idle", "called" or "returned"
  returned,          \* the dict the call returned
  \* an assessment script's command line and environment
  args,              \* --org-id, --folder-id, --project-ids
  env,               \* GCP_ORGANIZATION_ID, GCP_FOLDER_ID
  \* validate_org_setup.py
  vpc,               \* position of the validator's main
  venv,              \* its environment, GCP_PROJECT_IDS included
  validator,         \* the OrgSetupValidator object
  all_passed,        \* main's all_passed
  returns,           \* how each validation called so far ended
  commands,          \* the commands the validations ran
  summary,           \* the recommendation generate_summary printed
  validator_exit,    \* the validator's exit code (-1 while running)
  \* a worker thread and the subprocess it waits for
  wpc,               \* position of the thread in its collector call
  running,           \* <<the subprocess it waits for>>, <<>> if none
  ended,             \* how each command of the call ended, in order
  \* two workers of the GKE assessment and the kubeconfig file they share
  kubeconfig,        \* current-context of ~/.kube/config ("" if none)
  kpc,               \* position of each worker in get_cluster_workloads
  workload_data      \* the workload records each worker has collected

Assessment == <<domain, organization_id, folder_id, project_ids, max_workers,
                pc, cmds, projects, tasks, handled, all_data, files, errlog,
                success, exit_code>>

Master == <<requested_services, parallel, mpc, runs, results, report,
            master_exit>>

Collector == <<call, cpc, returned>>

Launch == <<args, env>>

Validator == <<vpc, venv, validator, all_passed, returns, commands, summary,
               validator_exit>>

Subprocess == <<wpc, running, ended>>

Kube == <<kubeconfig, kpc, workload_data>>

vars == <<Assessment, Master, Collector, Launch, Validator, Subprocess, Kube>>

\* available_services / the keys of assessment_scripts
available_services == <<"compute", "networking", "storage", "gke">>

NoResults == [s \in Range(available_services) |-> <<>>]

\* The orchestrator is not running.
MasterIdle ==
  /\ requested_services = <<>>
  /\ parallel = FALSE
  /\ mpc = "done"
  /\ runs = <<>>
  /\ results = NoResults
  /\ report = <<>>
  /\ master_exit = -1

EmptyData(dom) == [t \in Range(TypesOf(dom)) |-> <<>>]

\* No collector is called outside the pipeline.
NoCall ==
  [dom |-> "compute", org |-> "",
   project |-> Project(ProjectJson("pa", "ACTIVE")), cloud |-> OkJson(<<>>)]

CollectorIdle ==
  /\ call = NoCall
  /\ cpc = "idle"
  /\ returned = EmptyData("compute")

\* The constructor's arguments are given directly.
NoArgs == [org_id |-> "", folder_id |-> <<>>, project_ids |-> <<>>]
NoEnv == [GCP_ORGANIZATION_ID |-> "", GCP_FOLDER_ID |-> <<>>]

LaunchIdle ==
  /\ args = NoArgs
  /\ env = NoEnv

\* No setup validator is modelled in this process.
NoValidatorEnv ==
  [GCP_ORGANIZATION_ID |-> "", GCP_FOLDER_ID |-> <<>>, GCP_PROJECT_IDS |-> <<>>]

OrgSetupValidator(e) ==
  [organization_id |-> e.GCP_ORGANIZATION_ID, folder_id |-> e.GCP_FOLDER_ID,
   validation_results |-> <<>>]

ValidatorIdle ==
  /\ vpc = "idle"
  /\ venv = NoValidatorEnv
  /\ validator = OrgSetupValidator(venv)
  /\ all_passed = TRUE
  /\ returns = <<>>
  /\ commands = <<>>
  /\ summary = ""
  /\ validator_exit = -1

\* No thread waiting for a subprocess is modelled in this process.
SubprocessIdle ==
  /\ wpc = "idle"
  /\ running = <<>>
  /\ ended = <<>>

\* No GKE workers are modelled in this process.
KubeIdle ==
  /\ kubeconfig = ""
  /\ kpc = <<>>
  /\ workload_data = <<>>

FolderIds == {<<>>, <<"folders/", "F1">>, <<"F1">>}
OrgIds == {"", "O1"}

\* self.folder_id.replace('folders/', '')
StripFolders(f) == SelectSeq(f, LAMBDA t : t # "folders/")

\* A chain that tests the organization before the folder.
scope_branch_orgfirst(pids, fid, oid) ==
  IF pids # <<>> THEN "project_ids"
  ELSE IF oid # "" THEN "organization"
  ELSE IF fid # <<>> THEN "folder"
  ELSE "all"

\* The if/elif chain of get_organization_projects / get_projects.
scope_branch(pids, fid, oid) ==
  IF pids # <<>> THEN "project_ids"
  ELSE IF fid # <<>> THEN "folder"
  ELSE IF oid # "" THEN "organization"
  ELSE "all"

\* Arguments of the one `gcloud projects list` of a list branch.
list_filter(branch, fid, oid) ==
  CASE branch = "folder" -> <<"--filter=parent.id=">> \o StripFolders(fid)
    [] branch = "organization" -> <<"--filter=parent.id=", oid>>
    [] OTHER -> <<>>

Init ==
  /\ domain \in Domains
  /\ organization_id \in OrgIds
  /\ folder_id \in FolderIds
  /\ project_ids \in SeqsUpTo(ProjIds, MaxIds)
  /\ max_workers \in 1..MaxWorkers
  /\ pc = IF domain = "compute" THEN "validate" ELSE "resolve"
  /\ cmds = <<>>
  /\ projects = <<>>
  /\ tasks = <<>>
  /\ handled = <<>>
  /\ all_data = EmptyData(domain)
  /\ files = NoFiles(domain)
  /\ errlog = <<>>
  /\ success = "unset"
  /\ exit_code = -1
  /\ MasterIdle
  /\ CollectorIdle
  /\ LaunchIdle
  /\ ValidatorIdle
  /\ SubprocessIdle
  /\ KubeIdle

\* What no step of an assessment script changes: its inputs, and the
\* orchestrator's state.
Inputs == <<domain, organization_id, folder_id, project_ids, max_workers, Master,
            Collector, Launch, Validator, Subprocess, Kube>>
Dispatch == <<tasks, handled, all_data>>

ErrorLine(msg, project) == [msg |-> msg, project |-> project]

\* An exception nobody catches leaves main: traceback, exit status 1.
Uncaught ==
  /\ pc' = "done"
  /\ exit_code' = 1
  /\ UNCHANGED <<errlog, success>>

\* ------------------------------------------------- compute: validate_access
AuthLists == {<<>>, <<[status |-> "ACTIVE"]>>, <<[status |-> ""]>>}
AuthOutcomes == NoDataOutcomes \cup {OkJson(l) : l \in AuthLists}

\* `gcloud organizations describe <id>` is run without --format=json, so what
\* it prints on success is YAML text, never a JSON document.
OrgDescribeOutcomes == NoDataOutcomes

active_accounts(auth_result) ==
  SelectSeq(auth_result[1], LAMBDA acc : acc.status = "ACTIVE")

validate_access ==
  /\ pc = "validate"
  /\ \E oa \in AuthOutcomes, oo \in OrgDescribeOutcomes :
       LET auth == Call("validate", "auth-list", <<>>, domain, oa)
           authed == Truthy(auth.result) /\ active_accounts(auth.result) # <<>>
           org == Call("validate", "org-describe", <<organization_id>>, domain, oo)
           asked == authed /\ organization_id # ""
           ok == authed /\ (asked => Truthy(org.result))
       IN /\ cmds' = cmds \o <<auth>> \o (IF asked THEN <<org>> ELSE <<>>)
          /\ IF auth.raised \/ (asked /\ org.raised) THEN Uncaught
             ELSE IF ok
               THEN pc' = "resolve" /\ UNCHANGED <<errlog, success, exit_code>>
               ELSE /\ pc' = "exit"
                    /\ success' = "False"
                    /\ UNCHANGED exit_code
                    /\ errlog' = errlog \o
                         <<ErrorLine(IF ~Truthy(auth.result) THEN "No authentication found"
                                     ELSE IF ~authed THEN "No active authentication found"
                                     ELSE "Cannot access organization", "")>>
                         \o <<ErrorLine("Access validation failed", "")>>
  /\ UNCHANGED <<Inputs, projects, Dispatch, files>>

\* --------------------------------------------------------- Scope Resolver
ResolveCalls == SelectSeq(cmds, LAMBDA c : c.phase = "resolve")

\* A run_assessment that treats an empty scope as a success with nothing to do.
Resolved_vacuous(ps) ==
  /\ IF ps = <<>>
       THEN /\ pc' = "exit"
            /\ success' = "True"
            /\ UNCHANGED errlog
       ELSE /\ pc' = "submit"
            /\ UNCHANGED <<errlog, success>>
  /\ UNCHANGED exit_code

\* run_assessment right after the resolver returned ps.
Resolved(ps) ==
  /\ IF ps = <<>>
       THEN /\ pc' = "exit"
            /\ success' = "False"
            /\ errlog' = Append(errlog, ErrorLine("No projects found or accessible", ""))
       ELSE /\ pc' = "submit"
            /\ UNCHANGED <<errlog, success>>
  /\ UNCHANGED exit_code

\* A test that accepts every project the describe returned.
is_active_any(project_data) == Truthy(project_data)

\* if project_data and project_data.get('lifecycleState') == 'ACTIVE'
is_active(project_data) ==
  Truthy(project_data) /\ project_data[1][1].lifecycleState = "ACTIVE"

\* One iteration of the describe loop of the explicit-ids branch.
describe_project ==
  /\ pc = "resolve"
  /\ scope_branch(project_ids, folder_id, organization_id) = "project_ids"
  /\ LET i == Len(ResolveCalls) + 1
     IN \E o \in DescribeOutcomes(project_ids[i]) :
          LET c == Call("resolve", "describe", <<project_ids[i]>>, domain, o)
              ps == IF is_active(c.result)
                      THEN Append(projects, Project(c.result[1][1]))
                    ELSE projects
          IN /\ cmds' = Append(cmds, c)
             /\ projects' = ps
             /\ IF c.raised THEN Uncaught
                ELSE IF i = Len(project_ids) THEN Resolved(ps)
                ELSE UNCHANGED <<pc, errlog, success, exit_code>>
  /\ UNCHANGED <<Inputs, Dispatch, files>>

\* The comprehension of a list branch: the ACTIVE entries, in order.
active_projects(projects_data) ==
  Map(SelectSeq(projects_data, LAMBDA p : p.lifecycleState = "ACTIVE"), Project)

\* The folder, organization and list-all branches.
list_projects ==
  /\ pc = "resolve"
  /\ scope_branch(project_ids, folder_id, organization_id) # "project_ids"
  /\ \E o \in ListOutcomes :
       LET branch == scope_branch(project_ids, folder_id, organization_id)
           c == Call("resolve", "list", list_filter(branch, folder_id, organization_id),
                     domain, o)
           ps == IF Truthy(c.result) THEN active_projects(c.result[1]) ELSE <<>>
       IN /\ cmds' = Append(cmds, c)
          /\ projects' = ps
          /\ IF c.raised THEN Uncaught ELSE Resolved(ps)
  /\ UNCHANGED <<Inputs, Dispatch, files>>

\* ----------------------------------------------------- Parallel Dispatcher
\* A pool that takes up again a task whose collector raised.
Queued_or_raised(t) == tasks[t].st \in {"queued", "raised"}

Queued(t) == tasks[t].st = "queued"
Running(t) == tasks[t].st = "running"
\* An as_completed that also yields futures that have not finished.
Finished_or_not(t) == tasks[t].st \in {"queued", "running", "returned", "raised"}

Finished(t) == tasks[t].st \in {"returned", "raised"}

\* History kept with a compute task: what `gcloud compute instances list`
\* ended in for its project (the other domains keep no such history).
NotSeen == OkJson(<<>>)
Seen(dom, w) == IF dom = "compute" THEN w ELSE NotSeen

\* A comprehension that walks the resolved projects from the last to the first.
next_project_reversed(ps, n) == ps[Len(ps) - n]

\* `for project in projects` of the submitting comprehension: the project
\* submitted when n tasks are submitted already.
next_project(ps, n) == ps[n + 1]

\* executor.submit for the next project of the comprehension.
submit ==
  /\ pc = "submit"
  /\ tasks' = Append(tasks, [project |-> next_project(projects, Len(tasks)), st |-> "queued",
                             seen |-> NotSeen, result |-> EmptyData(domain)])
  /\ pc' = IF Len(tasks) + 1 = Len(projects) THEN "collect" ELSE "submit"
  /\ UNCHANGED <<Inputs, cmds, projects, handled, all_data, files, errlog,
                 success, exit_code>>

\* A pool that starts a thread for every submitted task.
idle_thread_always(ts, mw) == TRUE

\* ThreadPoolExecutor(max_workers=max_workers): a queued task is taken up
\* only while fewer than max_workers threads are busy.
idle_thread(ts, mw) ==
  Cardinality({u \in 1..Len(ts) : ts[u].st = "running"}) < mw

\* A pool thread takes the oldest queued task; the pool has max_workers threads.
worker_start(t) ==
  /\ Queued(t)
  /\ \A u \in 1..(t - 1) : ~Queued(u)
  /\ idle_thread(tasks, max_workers)
  /\ tasks' = [tasks EXCEPT ![t].st = "running"]
  /\ UNCHANGED <<Inputs, pc, cmds, projects, handled, all_data, files, errlog,
                 success, exit_code>>

\* The collector call of task t returns what it gathered from the project's cloud.
worker_return(t) ==
  /\ Running(t)
  /\ \E w \in Worlds(domain) :
       tasks' = [tasks EXCEPT ![t].st = "returned",
                              ![t].seen = Seen(domain, w),
                              ![t].result = collect(domain, organization_id,
                                                    tasks[t].project, w)]
  /\ UNCHANGED <<Inputs, pc, cmds, projects, handled, all_data, files, errlog,
                 success, exit_code>>

\* The collector call of task t ends with an exception that leaves it: the
\* collectors wrap their work in try/except Exception, so this is an
\* exception raised outside that block or inside its handler (MemoryError,
\* a failing log handler), which future.result() re-raises.
worker_raise(t) ==
  /\ Running(t)
  /\ tasks' = [tasks EXCEPT ![t].st = "raised"]
  /\ UNCHANGED <<Inputs, pc, cmds, projects, handled, all_data, files, errlog,
                 success, exit_code>>

\* An aggregation that appends every result twice.
extend_all_twice(data, result) ==
  [t \in DOMAIN data |-> data[t] \o result[t] \o result[t]]

\* An aggregation that leaves out records the aggregate holds already.
extend_all_merging(data, result) ==
  [t \in DOMAIN data |->
     data[t] \o SelectSeq(result[t], LAMBDA r : r \notin Range(data[t]))]

\* all_*.extend(...) for every aggregated resource type.
extend_all(data, result) == [t \in DOMAIN data |-> data[t] \o result[t]]

\* A loop body whose except clause drops what was aggregated so far.
absorb_reset(data, task) ==
  IF task.st = "returned" THEN extend_all(data, task.result)
  ELSE [t \in DOMAIN data |-> <<>>]

\* The aggregate after the loop body for one completed future: extended by
\* what future.result() returned, untouched when it raised.
absorb(data, task) ==
  IF task.st = "returned" THEN extend_all(data, task.result) ELSE data

\* One iteration of the as_completed loop, for the finished future t.
handle_completed(t) ==
  /\ pc = "collect"
  /\ Finished(t)
  /\ t \notin Range(handled)
  /\ handled' = Append(handled, t)
  /\ all_data' = absorb(all_data, tasks[t])
  /\ errlog' = IF tasks[t].st = "returned" THEN errlog
               ELSE Append(errlog, ErrorLine("Error processing project",
                                             tasks[t].project.project_id))
  /\ pc' = IF Len(handled) + 1 = Len(tasks) THEN "export" ELSE "collect"
  /\ UNCHANGED <<Inputs, cmds, projects, tasks, files, success, exit_code>>

\* The export calls of run_assessment and its return; a ValueError of the
\* CSV writer leaves run_assessment and main, and the interpreter exits 1.
export ==
  /\ pc = "export"
  /\ files' = export_data(domain, all_data).files
  /\ IF export_data(domain, all_data).raised
       THEN Uncaught
       ELSE pc' = "exit" /\ success' = "True" /\ UNCHANGED <<exit_code, errlog>>
  /\ UNCHANGED <<Inputs, cmds, projects, Dispatch>>

\* sys.exit(0 if success else 1)
exit ==
  /\ pc = "exit"
  /\ exit_code' = IF success = "True" THEN 0 ELSE 1
  /\ pc' = "done"
  /\ UNCHANGED <<Inputs, cmds, projects, Dispatch, files, errlog, success>>

Next ==
  \/ validate_access
  \/ describe_project
  \/ list_projects
  \/ submit
  \/ \E t \in 1..Len(tasks) : worker_start(t)
  \/ \E t \in 1..Len(tasks) : worker_return(t)
  \/ \E t \in 1..Len(tasks) : worker_raise(t)
  \/ \E t \in 1..Len(tasks) : handle_completed(t)
  \/ export
  \/ exit

Spec == Init /\ [][Next]_vars

\* ------------------------------------------------------------ Orchestrator
MaxServices == 3     \* longest --services list

\* --services as the spec allows it: a non-empty list of distinct available
\* services, in any order.
ServiceLists ==
  {l \in SeqsUpTo(Range(available_services), MaxServices) :
     l # <<>> /\ \A a, b \in 1..Len(l) : a # b => l[a] # l[b]}

\* How one run_single_assessment call can go: the script file is missing, or
\* the child process exits 0, exits non-zero, outlives the timeout, or
\* subprocess.run raises something else.
ChildOutcomes == {"exit0", "nonzero", "timeout", "exception"}

\* The dict run_single_assessment returns; duration tells whether the
\* 'duration' key is present, error is "" when the 'error' key is absent.
run_single_assessment(service, o) ==
  CASE o = "missing" ->
         [service |-> service, success |-> FALSE, duration |-> FALSE,
          error |-> "Script not found"]
    [] o = "exit0" ->
         [service |-> service, success |-> TRUE, duration |-> TRUE, error |-> ""]
    [] o = "timeout" ->
         [service |-> service, success |-> FALSE, duration |-> FALSE,
          error |-> "Timeout after"]
    [] o = "nonzero" ->
         [service |-> service, success |-> FALSE, duration |-> FALSE,
          error |-> "Exit code"]
    [] o = "exception" ->
         [service |-> service, success |-> FALSE, duration |-> FALSE,
          error |-> "str(e)"]

PendingRun == [st |-> "pending", started |-> 0, outcome |-> "none", result |-> <<>>]

\* No assessment script is modelled in this process.
AssessmentIdle ==
  /\ domain = "compute"
  /\ organization_id = ""
  /\ folder_id = <<>>
  /\ project_ids = <<>>
  /\ max_workers = 1
  /\ pc = "done"
  /\ cmds = <<>>
  /\ projects = <<>>
  /\ tasks = <<>>
  /\ handled = <<>>
  /\ all_data = EmptyData(domain)
  /\ files = NoFiles(domain)
  /\ errlog = <<>>
  /\ success = "unset"
  /\ exit_code = -1

MasterInit ==
  /\ requested_services \in ServiceLists
  /\ parallel \in BOOLEAN
  /\ mpc = "run"
  /\ runs = [i \in 1..Len(requested_services) |-> PendingRun]
  /\ results = NoResults
  /\ report = <<>>
  /\ master_exit = -1
  /\ AssessmentIdle
  /\ CollectorIdle
  /\ LaunchIdle
  /\ ValidatorIdle
  /\ SubprocessIdle
  /\ KubeIdle

\* Sequential mode calls run_single_assessment for the i-th service when
\* the results of all services before it are recorded; in parallel mode the
\* pool has one thread per service, so every call can begin at once.
may_begin(i) ==
  parallel \/ \A j \in 1..(i - 1) : runs[j].st = "recorded"

\* run_single_assessment up to subprocess.run: a missing script ends the call
\* with a failure record, otherwise the child process is started.
start_assessment(i) ==
  /\ mpc = "run"
  /\ runs[i].st = "pending"
  /\ may_begin(i)
  /\ \E exists \in BOOLEAN :
       runs' = [runs EXCEPT ![i] =
                  IF exists
                    THEN [@ EXCEPT !.st = "running", !.started = @ + 1]
                    ELSE [@ EXCEPT !.st = "returned", !.outcome = "missing",
                                   !.result = <<run_single_assessment(
                                                  requested_services[i], "missing")>>]]
  /\ UNCHANGED <<Assessment, Collector, Launch, Validator, Subprocess, Kube, requested_services, parallel, mpc, results, report,
                 master_exit>>

\* subprocess.run returns or raises, and run_single_assessment returns.
finish_assessment(i) ==
  /\ mpc = "run"
  /\ runs[i].st = "running"
  /\ \E o \in ChildOutcomes :
       runs' = [runs EXCEPT ![i].st = "returned", ![i].outcome = o,
                            ![i].result = <<run_single_assessment(
                                              requested_services[i], o)>>]
  /\ UNCHANGED <<Assessment, Collector, Launch, Validator, Subprocess, Kube, requested_services, parallel, mpc, results, report,
                 master_exit>>

\* A loop that stops at the first failed service.
loop_ends_at_failure(rs) ==
  \/ \A i \in 1..Len(rs) : rs[i].st = "recorded"
  \/ \E i \in 1..Len(rs) : rs[i].st = "recorded" /\ ~rs[i].result[1].success

\* The for loop of run_sequential_assessment and the as_completed loop of
\* run_parallel_assessment end when every service's result is recorded.
loop_ends(rs) == \A i \in 1..Len(rs) : rs[i].st = "recorded"

\* results[service] = result, in the main thread.
record_result(i) ==
  /\ mpc = "run"
  /\ runs[i].st = "returned"
  /\ runs' = [runs EXCEPT ![i].st = "recorded"]
  /\ results' = [results EXCEPT ![requested_services[i]] = runs[i].result]
  /\ mpc' = IF loop_ends(runs') THEN "report" ELSE "run"
  /\ UNCHANGED <<Assessment, Collector, Launch, Validator, Subprocess, Kube, requested_services, parallel, report, master_exit>>

\* The report: one entry per available service that has a result, in the
\* fixed order, then the lists of successful and failed services.
generate_summary_report(res) ==
  LET present == SelectSeq(available_services, LAMBDA s : res[s] # <<>>)
  IN [lines |-> [k \in 1..Len(present) |->
                   [service |-> present[k],
                    status |-> IF res[present[k]][1].success THEN "SUCCESS"
                               ELSE "FAILED",
                    detail |-> IF res[present[k]][1].success THEN "Duration"
                               ELSE res[present[k]][1].error]],
      successful |-> SelectSeq(present, LAMBDA s : res[s][1].success),
      failed |-> SelectSeq(present, LAMBDA s : ~res[s][1].success)]

write_summary ==
  /\ mpc = "report"
  /\ report' = <<generate_summary_report(results)>>
  /\ mpc' = "exit"
  /\ UNCHANGED <<Assessment, Collector, Launch, Validator, Subprocess, Kube, requested_services, parallel, runs, results,
                 master_exit>>

\* An exit status that is 0 as soon as one service succeeded.
exit_status_lenient(services, res) ==
  IF \E i \in 1..Len(services) :
       res[services[i]] # <<>> /\ res[services[i]][1].success
    THEN 0 ELSE 1

\* 0 if successful_count == total_count else 1
exit_status(services, res) ==
  LET successful_count ==
        Cardinality({i \in 1..Len(services) :
                       res[services[i]] # <<>> /\ res[services[i]][1].success})
      total_count == Len(services)
  IN IF successful_count = total_count THEN 0 ELSE 1

master_exits ==
  /\ mpc = "exit"
  /\ master_exit' = exit_status(requested_services, results)
  /\ mpc' = "done"
  /\ UNCHANGED <<Assessment, Collector, Launch, Validator, Subprocess, Kube, requested_services, parallel,
                 runs, results, report>>

MasterNext ==
  \/ \E i \in 1..Len(runs) : start_assessment(i)
  \/ \E i \in 1..Len(runs) : finish_assessment(i)
  \/ \E i \in 1..Len(runs) : record_result(i)
  \/ write_summary
  \/ master_exits

MasterSpec == MasterInit /\ [][MasterNext]_vars

\* ------------------------------------------ one collector call on its own
\* A Per-Project Collector is a function of its project and of what the
\* project's cloud answers; it is called here once on every cloud of up to
\* MaxItems resources.
CollectorInit ==
  /\ \E d \in Domains, o \in OrgIds :
     \E w \in Clouds(d) :
       /\ call = [dom |-> d, org |-> o,
                  project |-> Project(ProjectJson("pa", "ACTIVE")), cloud |-> w]
       /\ returned = EmptyData(d)
  /\ cpc = "called"
  /\ AssessmentIdle
  /\ MasterIdle
  /\ LaunchIdle
  /\ ValidatorIdle
  /\ SubprocessIdle
  /\ KubeIdle

compute_call ==
  /\ cpc = "called"
  /\ call.dom = "compute"
  /\ returned' = process_project_instances(call.org, call.project, call.cloud)
  /\ cpc' = "returned"
  /\ UNCHANGED <<call, Assessment, Master, Launch, Validator, Subprocess, Kube>>

storage_call ==
  /\ cpc = "called"
  /\ call.dom = "storage"
  /\ returned' = assess_project_storage(call.org, call.project, call.cloud)
  /\ cpc' = "returned"
  /\ UNCHANGED <<call, Assessment, Master, Launch, Validator, Subprocess, Kube>>

networking_call ==
  /\ cpc = "called"
  /\ call.dom = "networking"
  /\ returned' = assess_project_networking(call.org, call.project, call.cloud)
  /\ cpc' = "returned"
  /\ UNCHANGED <<call, Assessment, Master, Launch, Validator, Subprocess, Kube>>

gke_call ==
  /\ cpc = "called"
  /\ call.dom = "gke"
  /\ returned' = assess_project_gke(call.org, call.project, call.cloud)
  /\ cpc' = "returned"
  /\ UNCHANGED <<call, Assessment, Master, Launch, Validator, Subprocess, Kube>>

CollectorNext ==
  \/ compute_call
  \/ storage_call
  \/ networking_call
  \/ gke_call

CollectorSpec == CollectorInit /\ [][CollectorNext]_vars

\* ------------------------------------- from the command line to the scope
\* The scope options are a mutually exclusive argparse group: at most one of
\* them is given.
ArgSets ==
  {NoArgs, [NoArgs EXCEPT !.org_id = "O1"]}
  \cup {[NoArgs EXCEPT !.folder_id = f] : f \in FolderIds \ {<<>>}}
  \cup {[NoArgs EXCEPT !.project_ids = p] : p \in SeqsUpTo(ProjIds, MaxIds) \ {<<>>}}

\* The environment names another organization and another folder, or none.
EnvSets ==
  [GCP_ORGANIZATION_ID : {"", "O2"},
   GCP_FOLDER_ID : {<<>>, <<"F2">>, <<"folders/", "F2">>}]

ScopeInit ==
  /\ domain \in Domains
  /\ args \in ArgSets
  /\ env \in EnvSets
  /\ organization_id = ""
  /\ folder_id = <<>>
  /\ project_ids = <<>>
  /\ max_workers = 1
  /\ pc = "main"
  /\ cmds = <<>>
  /\ projects = <<>>
  /\ tasks = <<>>
  /\ handled = <<>>
  /\ all_data = EmptyData(domain)
  /\ files = NoFiles(domain)
  /\ errlog = <<>>
  /\ success = "unset"
  /\ exit_code = -1
  /\ MasterIdle
  /\ CollectorIdle
  /\ ValidatorIdle
  /\ SubprocessIdle
  /\ KubeIdle

\* main builds the assessor from the parsed options; __init__ falls back to
\* the environment for an organization or folder id that is None or empty:
\* organization_id or os.getenv('GCP_ORGANIZATION_ID'), and the same for
\* the folder; project_ids or [].
construct ==
  /\ pc = "main"
  /\ organization_id' = IF args.org_id # "" THEN args.org_id
                        ELSE env.GCP_ORGANIZATION_ID
  /\ folder_id' = IF args.folder_id # <<>> THEN args.folder_id
                  ELSE env.GCP_FOLDER_ID
  /\ project_ids' = args.project_ids
  /\ pc' = IF domain = "compute" THEN "validate" ELSE "resolve"
  /\ UNCHANGED <<domain, max_workers, Master, Collector, Launch, Validator, Subprocess, Kube, cmds, projects,
                 Dispatch, files, errlog, success, exit_code>>

\* A script from its start to the end of the Scope Resolver.
ScopeNext ==
  \/ construct
  \/ validate_access
  \/ describe_project
  \/ list_projects

ScopeSpec == ScopeInit /\ [][ScopeNext]_vars

\* ------------------------------------------- the export of one project
\* The clouds of a project of up to MaxExported well-formed resources whose
\* commands all succeed (networking), or of one such cluster (GKE).
ExportedClouds(dom) ==
  IF dom = "networking"
    THEN {[items |-> i, fail |-> "none", how |-> NonZero] :
            i \in SeqsUpTo({it \in NetItems : it.wellformed}, MaxExported)}
    ELSE {w \in GKEClouds({c \in ClusterJsons(MaxExported) : c.wellformed}, 1) :
            w.fail = "none"}

\* run_assessment of a multi-type domain at its export step, after the one
\* project "pa" given by --project-ids was described, collected and handled.
ExportInit ==
  /\ domain \in {"networking", "gke"}
  /\ organization_id \in OrgIds
  /\ folder_id = <<>>
  /\ project_ids = <<"pa">>
  /\ max_workers = 1
  /\ pc = "export"
  /\ cmds = <<Call("resolve", "describe", <<"pa">>, domain,
                   OkJson(ProjectJson("pa", "ACTIVE")))>>
  /\ projects = <<Project(ProjectJson("pa", "ACTIVE"))>>
  /\ \E w \in ExportedClouds(domain) :
       /\ tasks = <<[project |-> projects[1], st |-> "returned",
                     seen |-> Seen(domain, w),
                     result |-> collect(domain, organization_id, projects[1], w)]>>
       /\ all_data = extend_all(EmptyData(domain), tasks[1].result)
  /\ handled = <<1>>
  /\ files = NoFiles(domain)
  /\ errlog = <<>>
  /\ success = "unset"
  /\ exit_code = -1
  /\ MasterIdle
  /\ CollectorIdle
  /\ LaunchIdle
  /\ ValidatorIdle
  /\ SubprocessIdle
  /\ KubeIdle

ExportNext ==
  \/ export
  \/ exit

ExportSpec == ExportInit /\ [][ExportNext]_vars

\* ------------------------------------------------- validate_org_setup.py
\* subprocess.run could not start the program: FileNotFoundError when gcloud
\* is not on the PATH, or another OSError.
OSError == [kind |-> "oserror", text |-> "", val |-> <<>>]

\* run_command: check=True and no timeout; only CalledProcessError is caught.
\* output is stdout stripped on success, stderr on a non-zero exit.
run_command(o) ==
  [success |-> o.kind = "ok",
   output |-> [o EXCEPT !.text = strip(o.text)],
   raised |-> o.kind \notin {"ok", "nonzero"}]

\* What a validator command can end in when it prints JSON value v on success.
CommandOutcomes(vals) == {NonZero, OSError, OkEmpty, OkBad} \cup {OkJson(v) : v \in vals}

\* d[key] raises KeyError unless the key is there.
Has(d, key) == key \in Keys(d)

\* The seven validations in the order of main's list.
Validations ==
  <<"validate_gcloud_installation", "validate_authentication",
    "validate_organization_access", "validate_project_listing",
    "validate_compute_api_access", "validate_monitoring_api_access",
    "validate_environment_variables">>

Cmd(k, verb, arg) == [validation |-> Validations[k], verb |-> verb, arg |-> arg]

\* A validation that printed one result and returned its success.
Returned(test, ok, cs) ==
  [ret |-> IF ok THEN "True" ELSE "False",
   printed |-> <<[test |-> test, success |-> ok]>>,
   commands |-> cs]

\* A validation left by an exception before it printed a result.
Raised(cs) == [ret |-> "raised", printed |-> <<>>, commands |-> cs]

validate_gcloud_installation(o) ==
  LET r == run_command(o)
      cs == <<Cmd(1, "version", <<>>)>>
  IN IF r.raised THEN Raised(cs)
     ELSE Returned("gcloud CLI Installation", r.success, cs)

\* JSON the validator's commands can print.  An object is a dict; some lack
\* a key the validator subscripts.
AccountJsons ==
  {<<>>,
   << <<<<"account", "user">>, <<"status", "ACTIVE">>>> >>,
   << <<<<"status", "ACTIVE">>>> >>,
   << <<<<"account", "user">>, <<"status", "">>>> >>}

OrganizationJsons ==
  {<<>>,
   << <<<<"name", "org">>, <<"organizationId", "O1">>>> >>,
   << <<<<"organizationId", "O1">>>> >>,
   << <<<<"name", "org">>, <<"organizationId", "O9">>>> >>}

ProjectDict(id, state, named) ==
  <<<<"projectId", id>>, <<"lifecycleState", state>>>>
  \o IF named THEN <<<<"name", <<"name", id>>>>>> ELSE <<>>

ListedJsons ==
  {<<>>, <<ProjectDict("pa", "ACTIVE", TRUE)>>,
   <<ProjectDict("pa", "DELETE_REQUESTED", TRUE)>>,
   <<ProjectDict("pa", "ACTIVE", FALSE)>>}

DescribedJsons(id) ==
  {ProjectDict(id, "ACTIVE", TRUE), ProjectDict(id, "DELETE_REQUESTED", TRUE),
   ProjectDict(id, "ACTIVE", FALSE)}

SampleJsons == {<<>>, <<ProjectDict("pa", "ACTIVE", TRUE)>>, << <<<<"name", "x">>>> >>}

validate_authentication(o) ==
  LET r == run_command(o)
      cs == <<Cmd(2, "auth-list", <<>>)>>
      auth_data == json_loads(r.output).val[1]
      active == SelectSeq(auth_data, LAMBDA acc : Get(acc, "status", "") = "ACTIVE")
  IN IF r.raised THEN Raised(cs)
     ELSE IF ~r.success THEN Returned("Authentication Check", FALSE, cs)
     ELSE IF ~json_loads(r.output).ok THEN Returned("Authentication Status", FALSE, cs)
     ELSE IF active = <<>> THEN Returned("Authentication Status", FALSE, cs)
     ELSE IF ~Has(active[1], "account") THEN Raised(cs)
     ELSE Returned("Authentication Status", TRUE, cs)

validate_organization_access(v, o) ==
  LET r == run_command(o)
      cs == <<Cmd(3, "organizations-list", <<>>)>>
      orgs == json_loads(r.output).val[1]
  IN IF r.raised THEN Raised(cs)
     ELSE IF ~r.success THEN Returned("Organization Access", FALSE, cs)
     ELSE IF ~json_loads(r.output).ok THEN Returned("Organization Access", FALSE, cs)
     ELSE IF orgs = <<>> THEN Returned("Organization Access", FALSE, cs)
     ELSE IF \E k \in 1..Len(orgs) :
               ~Has(orgs[k], "name") \/ ~Has(orgs[k], "organizationId")
       THEN Raised(cs)
     ELSE IF v.organization_id # ""
       THEN Returned("Organization Access",
                     \E k \in 1..Len(orgs) :
                       Get(orgs[k], "organizationId", "") = v.organization_id,
                     cs)
     ELSE Returned("Organization Access", TRUE, cs)

\* The if/elif chain of validate_project_listing.
listing_scope(specific_projects, v) ==
  IF specific_projects # <<>> THEN "project_ids"
  ELSE IF v.organization_id # "" THEN "organization"
  ELSE IF v.folder_id # <<>> THEN "folder"
  ELSE "all"

filter_clause(scope, v) ==
  CASE scope = "organization" -> <<"--filter=parent.id=", v.organization_id>>
    [] scope = "folder" -> <<"--filter=parent.id=">> \o StripFolders(v.folder_id)
    [] OTHER -> <<>>

\* The describe loop over GCP_PROJECT_IDS: os[k] is what the k-th describe
\* ends in.  The loop is left at the first command that cannot be started.
specific_project_access(project_ids_, os) ==
  LET n == Len(project_ids_)
      stop == IF \E k \in 1..n : run_command(os[k]).raised
                THEN CHOOSE k \in 1..n :
                       /\ run_command(os[k]).raised
                       /\ \A j \in 1..(k - 1) : ~run_command(os[j]).raised
                ELSE n
      cs == [k \in 1..stop |-> Cmd(4, "describe", <<project_ids_[k]>>)]
      accessible(k) ==
        /\ run_command(os[k]).success
        /\ json_loads(run_command(os[k]).output).ok
        /\ Get(json_loads(run_command(os[k]).output).val[1], "lifecycleState", "") = "ACTIVE"
      project_data(k) == json_loads(run_command(os[k]).output).val[1]
  IN IF \E k \in 1..n : run_command(os[k]).raised THEN Raised(cs)
     ELSE IF \A k \in 1..n : ~accessible(k) THEN Returned("Project Access", FALSE, cs)
     ELSE IF \E k \in 1..n :
               accessible(k) /\ (~Has(project_data(k), "projectId") \/ ~Has(project_data(k), "name"))
       THEN Raised(cs)
     ELSE Returned("Project Access", TRUE, cs)

\* The one `gcloud projects list` of the other three scopes.
project_listing(scope, v, o) ==
  LET r == run_command(o)
      cs == <<Cmd(4, "list", filter_clause(scope, v))>>
      projects_ == json_loads(r.output).val[1]
      active == SelectSeq(projects_, LAMBDA p : Get(p, "lifecycleState", "") = "ACTIVE")
  IN IF r.raised THEN Raised(cs)
     ELSE IF ~r.success THEN Returned("Project Listing", FALSE, cs)
     ELSE IF ~json_loads(r.output).ok THEN Returned("Project Listing", FALSE, cs)
     ELSE IF \E k \in 1..Len(active) :
               ~Has(active[k], "projectId") \/ ~Has(active[k], "name")
       THEN Raised(cs)
     ELSE Returned("Project Listing", TRUE, cs)

validate_project_listing(specific_projects, v, os) ==
  IF listing_scope(specific_projects, v) = "project_ids"
    THEN specific_project_access(specific_projects, os)
    ELSE project_listing(listing_scope(specific_projects, v), v, os[1])

\* validate_compute_api_access and validate_monitoring_api_access: a sample
\* project from `gcloud projects list --limit=1`, then one list command of
\* the API in that project.
validate_api_access(k, test, verb, o1, o2) ==
  LET r1 == run_command(o1)
      c1 == <<Cmd(k, "list-limit-1", <<>>)>>
      projects_ == json_loads(r1.output).val[1]
      r2 == run_command(o2)
      c2 == c1 \o <<Cmd(k, verb, <<Get(projects_[1], "projectId", "")>>)>>
  IN IF r1.raised THEN Raised(c1)
     ELSE IF ~r1.success THEN Returned(test, FALSE, c1)
     ELSE IF ~json_loads(r1.output).ok THEN Returned(test, FALSE, c1)
     ELSE IF projects_ = <<>> THEN Returned(test, FALSE, c1)
     ELSE IF ~Has(projects_[1], "projectId") THEN Raised(c1)
     ELSE IF r2.raised THEN Raised(c2)
     ELSE Returned(test, r2.success, c2)

validate_compute_api_access(o1, o2) ==
  validate_api_access(5, "Compute API Access", "compute-instances-list", o1, o2)

validate_monitoring_api_access(o1, o2) ==
  validate_api_access(6, "Monitoring API Access", "monitoring-metrics-list", o1, o2)

\* It runs no command and always reports success.
validate_environment_variables ==
  Returned("Environment Variables", TRUE, <<>>)

\* The environment the validator is started in.  GCP_PROJECT_IDS is the list
\* of ids between its commas.
ValidatorEnvs ==
  [GCP_ORGANIZATION_ID : OrgIds,
   GCP_FOLDER_ID : FolderIds,
   GCP_PROJECT_IDS : {p \in SeqsUpTo(ProjIds, MaxIds) :
                        \A a, b \in 1..Len(p) : a # b => p[a] # p[b]}]

ValidatorInit ==
  /\ AssessmentIdle
  /\ MasterIdle
  /\ CollectorIdle
  /\ LaunchIdle
  /\ SubprocessIdle
  /\ KubeIdle
  /\ vpc = "main"
  /\ venv \in ValidatorEnvs
  /\ validator = OrgSetupValidator(NoValidatorEnv)
  /\ all_passed = TRUE
  /\ returns = <<>>
  /\ commands = <<>>
  /\ summary = ""
  /\ validator_exit = -1


NotValidator == <<Assessment, Master, Collector, Launch, Subprocess, Kube>>

\* main up to its loop: the object reads GCP_ORGANIZATION_ID and
\* GCP_FOLDER_ID; all_passed = True.
construct_validator ==
  /\ vpc = "main"
  /\ validator' = OrgSetupValidator(venv)
  /\ all_passed' = TRUE
  /\ vpc' = "run"
  /\ UNCHANGED <<NotValidator, venv, returns, commands, summary, validator_exit>>

\* One iteration of main's loop, validation number k ending as e:
\*   try: result = validation(); all_passed = all_passed and result
\*   except Exception: all_passed = False
iteration(k, e) ==
  [validator |-> [validator EXCEPT !.validation_results = @ \o e.printed],
   commands |-> commands \o e.commands,
   returns |-> Append(returns, [validation |-> Validations[k], ret |-> e.ret]),
   all_passed |-> IF e.ret = "raised" THEN FALSE ELSE all_passed /\ e.ret = "True",
   vpc |-> IF k = Len(Validations) THEN "summary" ELSE "run"]

gcloud_installation ==
  /\ vpc = "run"
  /\ Len(returns) = 0
  /\ \E o \in CommandOutcomes({}) :
       LET after == iteration(1, validate_gcloud_installation(o))
       IN /\ validator' = after.validator
          /\ commands' = after.commands
          /\ returns' = after.returns
          /\ all_passed' = after.all_passed
          /\ vpc' = after.vpc
  /\ UNCHANGED <<NotValidator, venv, summary, validator_exit>>

authentication ==
  /\ vpc = "run"
  /\ Len(returns) = 1
  /\ \E o \in CommandOutcomes(AccountJsons) :
       LET after == iteration(2, validate_authentication(o))
       IN /\ validator' = after.validator
          /\ commands' = after.commands
          /\ returns' = after.returns
          /\ all_passed' = after.all_passed
          /\ vpc' = after.vpc
  /\ UNCHANGED <<NotValidator, venv, summary, validator_exit>>

organization_access ==
  /\ vpc = "run"
  /\ Len(returns) = 2
  /\ \E o \in CommandOutcomes(OrganizationJsons) :
       LET after == iteration(3, validate_organization_access(validator, o))
       IN /\ validator' = after.validator
          /\ commands' = after.commands
          /\ returns' = after.returns
          /\ all_passed' = after.all_passed
          /\ vpc' = after.vpc
  /\ UNCHANGED <<NotValidator, venv, summary, validator_exit>>

\* What the commands of validate_project_listing can end in: one describe
\* per id of GCP_PROJECT_IDS, or one list.
ListingOutcomes(specific_projects) ==
  IF specific_projects # <<>>
    THEN {s \in [1..Len(specific_projects) ->
                   CommandOutcomes(UNION {DescribedJsons(i) : i \in ProjIds})] :
            \A k \in 1..Len(s) :
              s[k].text = "json" => s[k].val \in DescribedJsons(specific_projects[k])}
    ELSE [1..1 -> CommandOutcomes(ListedJsons)]

project_listing_check ==
  /\ vpc = "run"
  /\ Len(returns) = 3
  /\ \E os \in ListingOutcomes(venv.GCP_PROJECT_IDS) :
       LET after == iteration(4, validate_project_listing(venv.GCP_PROJECT_IDS, validator, os))
       IN /\ validator' = after.validator
          /\ commands' = after.commands
          /\ returns' = after.returns
          /\ all_passed' = after.all_passed
          /\ vpc' = after.vpc
  /\ UNCHANGED <<NotValidator, venv, summary, validator_exit>>

compute_api_access ==
  /\ vpc = "run"
  /\ Len(returns) = 4
  /\ \E o1 \in CommandOutcomes(SampleJsons), o2 \in CommandOutcomes({<<>>}) :
       LET after == iteration(5, validate_compute_api_access(o1, o2))
       IN /\ validator' = after.validator
          /\ commands' = after.commands
          /\ returns' = after.returns
          /\ all_passed' = after.all_passed
          /\ vpc' = after.vpc
  /\ UNCHANGED <<NotValidator, venv, summary, validator_exit>>

monitoring_api_access ==
  /\ vpc = "run"
  /\ Len(returns) = 5
  /\ \E o1 \in CommandOutcomes(SampleJsons), o2 \in CommandOutcomes({<<>>}) :
       LET after == iteration(6, validate_monitoring_api_access(o1, o2))
       IN /\ validator' = after.validator
          /\ commands' = after.commands
          /\ returns' = after.returns
          /\ all_passed' = after.all_passed
          /\ vpc' = after.vpc
  /\ UNCHANGED <<NotValidator, venv, summary, validator_exit>>

environment_variables ==
  /\ vpc = "run"
  /\ Len(returns) = 6
  /\ LET after == iteration(7, validate_environment_variables)
     IN /\ validator' = after.validator
        /\ commands' = after.commands
        /\ returns' = after.returns
        /\ all_passed' = after.all_passed
        /\ vpc' = after.vpc
  /\ UNCHANGED <<NotValidator, venv, summary, validator_exit>>

AllPassedLine == "All validations passed"
AddressLine == "Please address the failed validations"

\* generate_summary: passed_tests == total_tests decides the recommendation.
generate_summary ==
  /\ vpc = "summary"
  /\ LET passed_tests == Len(SelectSeq(validator.validation_results, LAMBDA r : r.success))
         total_tests == Len(validator.validation_results)
     IN summary' = IF passed_tests = total_tests THEN AllPassedLine ELSE AddressLine
  /\ vpc' = "exit"
  /\ UNCHANGED <<NotValidator, venv, validator, all_passed, returns, commands,
                 validator_exit>>

\* success = main(); sys.exit(0 if success else 1)
validator_sys_exit ==
  /\ vpc = "exit"
  /\ validator_exit' = IF all_passed THEN 0 ELSE 1
  /\ vpc' = "done"
  /\ UNCHANGED <<NotValidator, venv, validator, all_passed, returns, commands,
                 summary>>

ValidatorNext ==
  \/ construct_validator
  \/ gcloud_installation
  \/ authentication
  \/ organization_access
  \/ project_listing_check
  \/ compute_api_access
  \/ monitoring_api_access
  \/ environment_variables
  \/ generate_summary
  \/ validator_sys_exit

ValidatorSpec == ValidatorInit /\ [][ValidatorNext]_vars

\* ------------------------------- a worker thread and its subprocesses
\* The external commands of one Per-Project Collector call on a project that
\* holds one resource of each kind, in the order the collector runs them.
\* `via` is the function that calls subprocess.run.
CollectorCommands(dom) ==
  CASE dom = "compute" ->
         <<[tool |-> "gcloud", via |-> "run_gcloud_command"],
           [tool |-> "gcloud", via |-> "run_gcloud_command"]>>
    [] dom = "storage" ->
         <<[tool |-> "gcloud", via |-> "run_gcloud_command"],
           [tool |-> "gcloud", via |-> "run_gcloud_command"],
           [tool |-> "gsutil", via |-> "run_gsutil_command"],
           [tool |-> "gsutil", via |-> "run_gsutil_command"],
           [tool |-> "gsutil", via |-> "run_gsutil_command"]>>
    [] dom = "networking" ->
         [k \in 1..(Len(NetSteps) + 1) |->
            [tool |-> "gcloud", via |-> "run_gcloud_command"]]
    [] dom = "gke" ->
         <<[tool |-> "gcloud", via |-> "run_gcloud_command"],
           [tool |-> "gcloud", via |-> "run_gcloud_command"],
           [tool |-> "gcloud", via |-> "run_gcloud_command"],
           [tool |-> "gcloud", via |-> "get_cluster_workloads"],
           [tool |-> "kubectl", via |-> "get_kubernetes_resources"],
           [tool |-> "kubectl", via |-> "get_kubernetes_resources"],
           [tool |-> "kubectl", via |-> "get_kubernetes_resources"]>>

\* Only run_gcloud_command passes timeout (300 s) to subprocess.run;
\* run_gsutil_command, the credential fetch and the kubectl calls pass none.
has_timeout(c) == c.via = "run_gcloud_command"

\* The resource listing that opens a storage or GKE call timed out: the
\* collector has no resource to go on with.
ListingTimedOut ==
  /\ domain \in {"storage", "gke"}
  /\ ended # <<>>
  /\ ended[1].how = "timeout"

CallFinished == ListingTimedOut \/ Len(ended) = Len(CollectorCommands(domain))

\* run_assessment with one project, its collector call submitted and picked
\* up by a worker thread.
WaitInit ==
  /\ domain \in Domains
  /\ organization_id = ""
  /\ folder_id = <<>>
  /\ project_ids = <<>>
  /\ max_workers = 1
  /\ pc = "done"
  /\ cmds = <<>>
  /\ projects = <<>>
  /\ tasks = <<>>
  /\ handled = <<>>
  /\ all_data = EmptyData(domain)
  /\ files = NoFiles(domain)
  /\ errlog = <<>>
  /\ success = "unset"
  /\ exit_code = -1
  /\ MasterIdle
  /\ CollectorIdle
  /\ LaunchIdle
  /\ ValidatorIdle
  /\ KubeIdle
  /\ wpc = "collect"
  /\ running = <<>>
  /\ ended = <<>>

NotSubprocess == <<Assessment, Master, Collector, Launch, Validator, Kube>>

\* subprocess.run starts the next command; the thread blocks.  Whether the
\* process would ever exit on its own is the outside world's choice.
start_command ==
  /\ wpc = "collect"
  /\ ~CallFinished
  /\ \E exits \in BOOLEAN :
       running' = <<[command |-> CollectorCommands(domain)[Len(ended) + 1],
                     exits |-> exits]>>
  /\ wpc' = "waiting"
  /\ UNCHANGED <<NotSubprocess, ended>>

\* The subprocess exits; subprocess.run returns or raises CalledProcessError.
subprocess_exits ==
  /\ wpc = "waiting"
  /\ running[1].exits
  /\ ended' = Append(ended, [command |-> running[1].command, how |-> "exit"])
  /\ running' = <<>>
  /\ wpc' = "collect"
  /\ UNCHANGED NotSubprocess

\* The timeout passed to subprocess.run fires; the child is killed and
\* TimeoutExpired is raised (and caught by the runner).
timeout_fires ==
  /\ wpc = "waiting"
  /\ has_timeout(running[1].command)
  /\ ended' = Append(ended, [command |-> running[1].command, how |-> "timeout"])
  /\ running' = <<>>
  /\ wpc' = "collect"
  /\ UNCHANGED NotSubprocess

\* The collector call returns; as_completed yields its future and the main
\* thread goes on to the export.
collector_returns ==
  /\ wpc = "collect"
  /\ CallFinished
  /\ wpc' = "export"
  /\ UNCHANGED <<NotSubprocess, running, ended>>

\* The export is written and the script exits.
export_and_exit ==
  /\ wpc = "export"
  /\ wpc' = "done"
  /\ UNCHANGED <<NotSubprocess, running, ended>>

WaitNext ==
  \/ start_command
  \/ subprocess_exits
  \/ timeout_fires
  \/ collector_returns
  \/ export_and_exit

\* The threads are scheduled, a process that exits is reaped and a timer that
\* is set fires: every step that stays possible is eventually taken.
WaitSpec ==
  /\ WaitInit
  /\ [][WaitNext]_vars
  /\ WF_vars(start_command)
  /\ WF_vars(subprocess_exits)
  /\ WF_vars(timeout_fires)
  /\ WF_vars(collector_returns)
  /\ WF_vars(export_and_exit)

\* ----------------------- concurrent GKE collectors and the kubeconfig
\* Two projects with one cluster each; the collector of project w runs
\* get_cluster_workloads for cluster ClusterOf[w].
ClusterOf == <<"c1", "c2">>
KubeWorkers == 1..Len(ClusterOf)

\* The positions of get_cluster_workloads after the credential fetch.
KubeKinds == <<"deployments", "services", "pods">>

AfterKind(kind) ==
  CASE kind = "deployments" -> "services"
    [] kind = "services" -> "pods"
    [] kind = "pods" -> "done"

\* run_assessment of the GKE script: both collector calls are submitted to a
\* ThreadPoolExecutor(max_workers); no cluster credentials are fetched yet.
KubeInit ==
  /\ domain = "gke"
  /\ organization_id = ""
  /\ folder_id = <<>>
  /\ project_ids = <<>>
  /\ max_workers \in 1..MaxWorkers
  /\ pc = "done"
  /\ cmds = <<>>
  /\ projects = <<>>
  /\ tasks = <<>>
  /\ handled = <<>>
  /\ all_data = EmptyData(domain)
  /\ files = NoFiles(domain)
  /\ errlog = <<>>
  /\ success = "unset"
  /\ exit_code = -1
  /\ MasterIdle
  /\ CollectorIdle
  /\ LaunchIdle
  /\ ValidatorIdle
  /\ SubprocessIdle
  /\ kubeconfig = ""
  /\ kpc = [w \in KubeWorkers |-> "queued"]
  /\ workload_data = [w \in KubeWorkers |-> <<>>]

NotKube == <<Assessment, Master, Collector, Launch, Validator, Subprocess>>

\* A pool thread takes the oldest queued call, if fewer than max_workers
\* calls are running.
pick_up ==
  \E w \in KubeWorkers :
    /\ kpc[w] = "queued"
    /\ \A j \in 1..(w - 1) : kpc[j] # "queued"
    /\ Cardinality({j \in KubeWorkers : kpc[j] \notin {"queued", "done"}}) < max_workers
    /\ kpc' = [kpc EXCEPT ![w] = "credentials"]
    /\ UNCHANGED <<NotKube, kubeconfig, workload_data>>

\* gcloud container clusters get-credentials <cluster>: on success it makes
\* the cluster the current context of the kubeconfig file, which every thread
\* and every kubectl process of the user shares; on failure the except clause
\* of get_cluster_workloads ends the call with no workloads.
fetch_credentials ==
  \E w \in KubeWorkers, ok \in BOOLEAN :
    /\ kpc[w] = "credentials"
    /\ kubeconfig' = IF ok THEN ClusterOf[w] ELSE kubeconfig
    /\ kpc' = [kpc EXCEPT ![w] = IF ok THEN KubeKinds[1] ELSE "done"]
    /\ UNCHANGED <<NotKube, workload_data>>

\* get_kubernetes_resources: `kubectl get <kind> --all-namespaces -o json`
\* names no context, so the cluster of the current context answers; the
\* record is labelled with the caller's cluster_name.  served_by records
\* which cluster answered.  A failing kubectl yields no record.
kubectl_get ==
  \E w \in KubeWorkers, ok \in BOOLEAN :
    /\ kpc[w] \in Range(KubeKinds)
    /\ workload_data' =
         [workload_data EXCEPT ![w] =
            IF ok THEN Append(@, [cluster_name |-> ClusterOf[w],
                                  resource_type |-> kpc[w],
                                  served_by |-> kubeconfig])
            ELSE @]
    /\ kpc' = [kpc EXCEPT ![w] = AfterKind(kpc[w])]
    /\ UNCHANGED <<NotKube, kubeconfig>>

KubeNext ==
  \/ pick_up
  \/ fetch_credentials
  \/ kubectl_get

KubeSpec == KubeInit /\ [][KubeNext]_vars

\* ------------------------------------------------- the suite as a whole
\* Either program is run: an assessment script or the orchestrator.
SuiteInit == Init \/ MasterInit

SuiteNext == Next \/ MasterNext

SuiteSpec == SuiteInit /\ [][SuiteNext]_vars

\* ================================================================ claims
\* The uncaught-exception exit: main ended without run_assessment returning.
Crashed == pc = "done" /\ success = "unset"

\* compute's validate_access refused the run before any resolution.
ValidationFailed ==
  \E k \in 1..Len(errlog) : errlog[k].msg = "Access validation failed"

\* Resolution ran to its end.
ResolveDone ==
  /\ pc \in {"submit", "collect", "export", "exit", "done"}
  /\ ~ValidationFailed

\* A call that found nothing: it failed, printed nothing, or printed an
\* empty document.
FoundNothing(c) ==
  c.outcome.kind # "ok" \/ c.outcome.text # "json" \/ c.outcome.val = <<>>

\* The call failed: timeout, non-zero exit, or output that is not JSON.
Failed(c) ==
  c.outcome.kind \in {"timeout", "nonzero"}
  \/ (c.outcome.kind = "ok" /\ c.outcome.text = "bad")

\* ------------------------------------------------------------------- C1
\* C1: scope inputs take effect in the order explicit project ids, then
\* folder, then organization, then list-all: every lookup command issued is
\* the one of the first non-empty input (a describe of the k-th explicit id;
\* else one list filtered by the folder id without its "folders/" prefix;
\* else one list filtered by the organization id; else one unfiltered list),
\* and no command of another branch is issued.
C1_ScopePrecedence ==
  /\ \A k \in 1..Len(ResolveCalls) :
       LET c == ResolveCalls[k]
       IN IF project_ids # <<>>
            THEN c.verb = "describe" /\ k <= Len(project_ids)
                 /\ c.arg = <<project_ids[k]>>
          ELSE IF folder_id # <<>>
            THEN c.verb = "list" /\ k = 1 /\ c.arg = <<"--filter=parent.id=", "F1">>
          ELSE IF organization_id # ""
            THEN c.verb = "list" /\ k = 1
                 /\ c.arg = <<"--filter=parent.id=", organization_id>>
          ELSE c.verb = "list" /\ k = 1 /\ c.arg = <<>>
  /\ ResolveDone =>
       Len(ResolveCalls) = IF project_ids # <<>> THEN Len(project_ids) ELSE 1

\* A finished run given a folder and an organization and no explicit ids:
\* the one lookup was the folder's.
C1_Witness ==
  /\ pc = "done"
  /\ project_ids = <<>> /\ folder_id = <<"folders/", "F1">> /\ organization_id = "O1"
  /\ Len(ResolveCalls) = 1
  /\ ResolveCalls[1].arg = <<"--filter=parent.id=", "F1">>
  /\ projects # <<>>

\* ------------------------------------------------------------------- C2
\* C2: a command that exits zero with empty or whitespace-only stdout gives
\* the empty result and logs no error; a command that exits non-zero gives
\* the empty result and logs an error; neither raises.
C2_EmptyAndNonZero ==
  \A k \in 1..Len(cmds) :
    LET c == cmds[k]
    IN /\ (c.outcome.kind = "ok" /\ c.outcome.text \in {"", "ws"}) =>
            c.result = <<>> /\ c.errors = 0 /\ ~c.raised
       /\ c.outcome.kind = "nonzero" =>
            c.result = <<>> /\ c.errors >= 1 /\ ~c.raised

\* A run whose first describe printed only whitespace and whose second exited
\* non-zero.
C2_Witness ==
  /\ Len(ResolveCalls) = 2
  /\ ResolveCalls[1].outcome.kind = "ok" /\ ResolveCalls[1].outcome.text = "ws"
  /\ ResolveCalls[2].outcome.kind = "nonzero"
  /\ pc = "done"

\* ------------------------------------------------------------------- C3
\* C3: a failing command (non-zero exit, output that is not JSON, timeout)
\* never raises out of the runner: the failure is logged, the result is the
\* empty one, and the caller goes on as after a call that found nothing, so
\* a run that ends before any project is dispatched ends through
\* run_assessment's return and never through an uncaught exception.
C3_FailuresContained ==
  /\ \A k \in 1..Len(cmds) :
       Failed(cmds[k]) =>
         cmds[k].result = <<>> /\ cmds[k].errors >= 1 /\ ~cmds[k].raised
  /\ (tasks = <<>> /\ pc = "done") => success = "False"
  /\ \A k \in 1..Len(ResolveCalls) :
       (Failed(ResolveCalls[k]) /\ k < Len(project_ids)) =>
         (Len(ResolveCalls) > k \/ pc = "resolve")

\* The first describe printed text that is not JSON, the loop went on to the
\* second id, found it ACTIVE, and the run ended with exit code 0.
C3_Witness ==
  /\ Len(ResolveCalls) = 2
  /\ ResolveCalls[1].outcome.kind = "ok" /\ ResolveCalls[1].outcome.text = "bad"
  /\ Len(projects) = 1
  /\ pc = "done" /\ exit_code = 0

\* ------------------------------------------------------------------- C4
\* The k-th describe printed the record of an ACTIVE project.
ActiveAt(k) ==
  LET o == ResolveCalls[k].outcome
  IN o.kind = "ok" /\ o.text = "json" /\ o.val # <<>>
     /\ o.val[1].lifecycleState = "ACTIVE"

\* C4: with explicit project ids the resolved projects are exactly the ids
\* whose describe succeeded with lifecycle state ACTIVE, in input order; a
\* failing describe drops only its own id: every id is still described, and
\* every resolved project is still submitted and handled.
C4_ActiveSubsequence ==
  project_ids # <<>> =>
    LET n == Len(ResolveCalls)
        kept == SelectSeq([k \in 1..n |-> k], ActiveAt)
    IN /\ [k \in 1..Len(projects) |-> projects[k].project_id]
            = [k \in 1..Len(kept) |-> project_ids[kept[k]]]
       /\ ResolveDone => n = Len(project_ids)
       /\ pc \in {"export", "exit", "done"} /\ ResolveDone =>
            /\ [t \in 1..Len(tasks) |-> tasks[t].project] = projects
            /\ Range(handled) = 1..Len(projects)

\* Two ids given, the first describe failed, the second id is ACTIVE and was
\* collected.
C4_Witness ==
  /\ Len(project_ids) = 2 /\ Len(ResolveCalls) = 2
  /\ Failed(ResolveCalls[1]) /\ ActiveAt(2)
  /\ Len(projects) = 1 /\ projects[1].project_id = project_ids[2]
  /\ pc = "done" /\ handled = <<1>> /\ tasks[1].st = "returned"

\* ------------------------------------------------------------------- C5
\* What the handled futures that returned gathered for a type, in the order
\* they were handled.
Gathered(type) ==
  Concat([k \in 1..Len(handled) |->
            IF tasks[handled[k]].st = "returned"
              THEN tasks[handled[k]].result[type] ELSE <<>>])

\* Records of an inferred-header type that do not share one key set.
Heterogeneous ==
  \E type \in DOMAIN all_data \cap {"load_balancers", "workloads"} :
    \E a, b \in 1..Len(all_data[type]) :
      Keys(all_data[type][a]) # Keys(all_data[type][b])

\* C5: a project whose collection raises contributes nothing, the aggregate
\* still holds every record of every other handled project, the failure is
\* logged as an error exactly once per failed task, and the assessment still
\* returns success (exit code 0) - the only run that does not is one whose
\* CSV writer raises on records with differing key sets.
C5_FailureIsolation ==
  (\E t \in Range(handled) : tasks[t].st = "raised") =>
    /\ \A type \in DOMAIN all_data : all_data[type] = Gathered(type)
    /\ \A p \in ProjIds :
         Cardinality({k \in 1..Len(errlog) :
                        errlog[k] = [msg |-> "Error processing project",
                                     project |-> p]})
         = Cardinality({t \in Range(handled) :
                          tasks[t].st = "raised" /\ tasks[t].project.project_id = p})
    /\ pc = "exit" => success = "True"
    /\ pc = "done" =>
         /\ success # "False"
         /\ success = "True" => exit_code = 0
         /\ success = "unset" => Heterogeneous

\* Two projects: the second one's collection was handled first, then the
\* first one's, which raised; the second one's record is still in the
\* aggregate and the run ended with exit code 0.
C5_Witness ==
  /\ pc = "done" /\ exit_code = 0 /\ success = "True"
  /\ Len(tasks) = 2 /\ handled = <<2, 1>>
  /\ tasks[1].st = "raised" /\ tasks[2].st = "returned"
  /\ \E type \in DOMAIN all_data :
       all_data[type] # <<>> /\ all_data[type] = tasks[2].result[type]
  /\ Len(errlog) = 1

\* ------------------------------------------------------------------- C6
\* The resource types of the running domain whose header is a declared list.
DeclaredTypes == DOMAIN files \ {"load_balancers", "workloads"}

\* The export step of run_assessment was reached.
ExportRan == pc \in {"exit", "done"} /\ tasks # <<>>

\* The file of a type is its declared header followed by one row per
\* aggregated record, fields in header order.
WellFormedFile(type) ==
  LET header == Fieldnames(type, <<>>)
      data == all_data[type]
  IN /\ Len(files[type]) = 1 + Len(data)
     /\ files[type][1] = header
     /\ \A k \in 1..Len(data) :
          files[type][k + 1] = [j \in 1..Len(header) |-> Get(data[k], header[j], "")]

\* The types the networking export reaches only after the load balancers.
AfterInferred == {"nat_gateways", "vpn_gateways", "dns_zones"}

C7_EmptyScope ==
  /\ (ResolveDone /\ \A k \in 1..Len(ResolveCalls) : FoundNothing(ResolveCalls[k]))
       => projects = <<>>
  /\ (ResolveDone /\ projects = <<>>) =>
       /\ tasks = <<>> /\ handled = <<>>
       /\ \A type \in DOMAIN files : files[type] = <<>>
       /\ Len(ResolveCalls) = IF project_ids # <<>> THEN Len(project_ids) ELSE 1
       /\ pc \in {"exit", "done"}
       /\ success = "False"
       /\ pc = "done" => exit_code = 1

\* Two explicit ids, both describes failed, and the run ended with code 1.
C7_Witness ==
  /\ pc = "done" /\ exit_code = 1
  /\ Len(ResolveCalls) = 2
  /\ \A k \in 1..2 : Failed(ResolveCalls[k])
  /\ tasks = <<>>

\* ------------------------------------------------------------------- C8
\* The compute task's instance list call found no instance.
ZeroInstances(t) ==
  tasks[t].st = "returned" /\ FoundNothing([outcome |-> tasks[t].seen])

\* Data rows of a file that carry project id p.
RowsOf(type, p) ==
  {k \in 2..Len(files[type]) :
     \E j \in 1..Len(files[type][1]) :
       files[type][1][j] = "project_id" /\ files[type][k][j] = p}

\* C8: in the compute assessment a project whose instance list holds no
\* instance gives no inventory and no utilization record, so no row of
\* either file carries its id; and the run exits with code 0 whenever at
\* least one project was resolved.
C8_ZeroInstances ==
  domain = "compute" =>
    /\ \A t \in 1..Len(tasks) :
         ZeroInstances(t) =>
           tasks[t].result.inventory = <<>> /\ tasks[t].result.utilization = <<>>
    /\ \A p \in ProjIds :
         (\A t \in 1..Len(tasks) :
            tasks[t].project.project_id = p =>
              (ZeroInstances(t) \/ tasks[t].st = "raised"))
         => \A type \in DOMAIN files : RowsOf(type, p) = {}
    /\ (pc = "done" /\ projects # <<>>) => exit_code = 0

\* Two projects, the first without instances, the second with one: the
\* inventory file holds the header and the second project's row only.
C8_Witness ==
  /\ domain = "compute" /\ pc = "done" /\ exit_code = 0
  /\ Len(tasks) = 2
  /\ ZeroInstances(1) /\ tasks[1].seen.kind = "ok"
  /\ tasks[2].st = "returned" /\ Len(tasks[2].result.inventory) = 1
  /\ tasks[1].project.project_id # tasks[2].project.project_id
  /\ Len(files.inventory) = 2
  /\ RowsOf("inventory", tasks[1].project.project_id) = {}
  /\ RowsOf("inventory", tasks[2].project.project_id) = {2}

\* ------------------------------------------------------------------- C9
\* The i-th requested service did not succeed: missing script, non-zero
\* exit, timeout or unexpected error.
RunFailed(i) == runs[i].outcome \in {"missing", "nonzero", "timeout", "exception"}

\* C9: in both modes the summary report is written once the results of all
\* requested services are recorded and never before, it shows every
\* requested service as SUCCESS or FAILED according to how its run went, and
\* the orchestrator's exit code is non-zero exactly when at least one
\* requested service failed.
C9_ReportAndExitCode ==
  /\ report # <<>> => \A i \in 1..Len(runs) : runs[i].st = "recorded"
  /\ mpc \in {"exit", "done"} =>
       /\ report # <<>>
       /\ \A i \in 1..Len(runs) :
            \E k \in 1..Len(report[1].lines) :
              /\ report[1].lines[k].service = requested_services[i]
              /\ report[1].lines[k].status
                   = IF RunFailed(i) THEN "FAILED" ELSE "SUCCESS"
       /\ Len(report[1].lines) = Len(requested_services)
  /\ mpc = "done" =>
       /\ master_exit \in {0, 1}
       /\ master_exit # 0 <=> \E i \in 1..Len(runs) : RunFailed(i)

\* A parallel run of three services of which exactly one timed out: the
\* report is written and the exit code is 1.
C9_Witness ==
  /\ parallel /\ mpc = "done" /\ master_exit = 1
  /\ Len(runs) = 3
  /\ Cardinality({i \in 1..3 : RunFailed(i)}) = 1
  /\ \E i \in 1..3 : runs[i].outcome = "timeout"
  /\ Len(report[1].lines) = 3 /\ Len(report[1].failed) = 1

\* ------------------------------------------------------------------ C10
\* The record of the i-th run has the shape the run's end calls for.
RecordedShape(i) ==
  LET r == runs[i].result[1]
  IN /\ r.service = requested_services[i]
     /\ IF runs[i].outcome = "exit0"
          THEN r.success /\ r.duration /\ r.error = ""
          ELSE ~r.success /\ ~r.duration /\ r.error # ""

\* Every service's result is in the results dict when the loop is left.
AllRecorded ==
  mpc # "run" =>
    \A i \in 1..Len(runs) :
      runs[i].st = "recorded" /\ results[requested_services[i]] = runs[i].result

\* In sequential mode the service after a recorded one has begun or can begin.
SequentialContinues ==
  \A i \in 1..(Len(runs) - 1) :
    (~parallel /\ runs[i].st = "recorded") =>
      (runs[i + 1].st # "pending" \/ ENABLED start_assessment(i + 1))

\* C10 as stated: every requested service whose call has ended was run as a
\* process of its own and has a result of the right shape, all results are
\* recorded when the loop is left, and sequential mode goes on after a
\* failure.
C10_Original ==
  /\ \A i \in 1..Len(runs) :
       runs[i].st \in {"returned", "recorded"} =>
         runs[i].started = 1 /\ RecordedShape(i)
  /\ AllRecorded
  /\ SequentialContinues

\* C10, amended: every requested service whose script file exists is run as
\* exactly one process of its own, a service whose script is missing starts
\* no process, and in both modes every requested service ends with a
\* recorded result (success with duration, or failure with error) whatever
\* happened to the others; in sequential mode a failed service never keeps
\* the ones after it from being started.
C10_OwnProcessAndResult ==
  /\ \A i \in 1..Len(runs) :
       /\ runs[i].started <= 1
       /\ runs[i].st = "running" => runs[i].started = 1
       /\ runs[i].st \in {"returned", "recorded"} =>
            /\ runs[i].started = IF runs[i].outcome = "missing" THEN 0 ELSE 1
            /\ RecordedShape(i)
  /\ AllRecorded
  /\ SequentialContinues

\* A sequential run of three services: the first timed out, the script of
\* the second is missing, the third ran and succeeded.
C10_Witness ==
  /\ ~parallel /\ mpc = "done"
  /\ Len(runs) = 3
  /\ runs[1].outcome = "timeout" /\ runs[1].started = 1
  /\ runs[2].outcome = "missing" /\ runs[2].started = 0
  /\ runs[3].outcome = "exit0" /\ runs[3].started = 1
  /\ \A i \in 1..3 : results[requested_services[i]] = runs[i].result

\* ------------------------------------------------------------------ C11
\* What the aggregate would hold had the futures been handled in submission
\* order.
InSubmissionOrder ==
  [type \in DOMAIN all_data |->
     Concat([t \in 1..Len(tasks) |->
               IF tasks[t].st = "returned" THEN tasks[t].result[type] ELSE <<>>])]

\* C11: the CSV content is the same for every run on the same command
\* outputs, whatever max_workers and the completion order are; so the files
\* of any run are the files of the run that handles the futures in
\* submission order.
C11_Idempotence ==
  ExportRan => files = export_data(domain, InSubmissionOrder).files

\* ------------------------------------------------------------------ C12
\* The step appends to the aggregate what the future of one handled task
\* returned, on the main thread, and leaves the tasks alone.
MainThreadAppends ==
  \E t \in 1..Len(tasks) :
    /\ pc = "collect"
    /\ t \notin Range(handled)
    /\ handled' = Append(handled, t)
    /\ tasks[t].st = "returned"
    /\ tasks' = tasks
    /\ all_data' = [type \in DOMAIN all_data |->
                      all_data[type] \o tasks[t].result[type]]

\* C12: the aggregate changes only in a step of the main thread that handles
\* one completed future, and that step appends exactly what the future
\* returned; a step of a worker (one that changes a task) never changes the
\* aggregate, and handling a returned future always appends its records, so
\* nothing is lost or doubled.
C12_SingleWriter ==
  [][/\ all_data' # all_data => MainThreadAppends
     /\ tasks' # tasks => all_data' = all_data
     /\ (Len(handled') > Len(handled)
           /\ tasks[handled'[Len(handled')]].st = "returned") => MainThreadAppends]_vars

\* One worker is still running while the main thread has already put the
\* records of the other project into the aggregate.
C12_Witness ==
  /\ Len(tasks) = 2 /\ handled = <<2>>
  /\ tasks[1].st = "running" /\ tasks[2].st = "returned"
  /\ \E type \in DOMAIN all_data :
       all_data[type] # <<>> /\ all_data[type] = tasks[2].result[type]

\* ------------------------------------------------------------------ C13
\* C13: at every moment at most max_workers collector calls are executing,
\* and every collector call is for one resolved project, no project being
\* given to more calls than it occurs in the resolved list.
C13_BoundedPool ==
  /\ Cardinality({t \in 1..Len(tasks) : tasks[t].st = "running"}) <= max_workers
  /\ Len(tasks) <= Len(projects)
  /\ \A t \in 1..Len(tasks) :
       /\ tasks[t].project \in Range(projects)
       /\ Cardinality({u \in 1..Len(tasks) : tasks[u].project = tasks[t].project})
            <= Cardinality({k \in 1..Len(projects) : projects[k] = tasks[t].project})

\* With max_workers = 1 and two projects, one call is executing and the other
\* waits in the queue.
C13_Witness ==
  /\ max_workers = 1 /\ Len(tasks) = 2
  /\ tasks[1].st = "running" /\ tasks[2].st = "queued"
  /\ tasks[1].project # tasks[2].project

\* ------------------------------------------------------------------ C16
\* C16: a domain assessment ends with a non-zero exit code exactly when no
\* project was resolved; with at least one project resolved nothing else
\* (a failed project, an empty resource list, the export) makes it fail.
C16_OnlyFatalCondition ==
  pc = "done" => (exit_code # 0 <=> projects = <<>>)

C20_SubmissionOrder ==
  [][tasks' # tasks =>
       \/ /\ Len(tasks') = Len(tasks) + 1
          /\ SubSeq(tasks', 1, Len(tasks)) = tasks
          /\ tasks'[Len(tasks')].project = projects[Len(tasks')]
          /\ tasks'[Len(tasks')].st = "queued"
       \/ /\ Len(tasks') = Len(tasks)
          /\ \A t \in 1..Len(tasks) : tasks'[t].project = tasks[t].project]_vars

\* Two different projects submitted in resolved order; the second one's
\* result was aggregated while the first had not been handled yet.
C20_Witness ==
  /\ Len(projects) = 2 /\ Len(tasks) = 2
  /\ projects[1] # projects[2]
  /\ tasks[1].project = projects[1] /\ tasks[2].project = projects[2]
  /\ handled = <<2>> /\ tasks[2].st = "returned"
  /\ \E type \in DOMAIN all_data : all_data[type] # <<>>

\* ---- a claim about the scope of a run (ScopeSpec)
\* C17: a scope given on the command line overrides the environment: with
\* --org-id X every lookup the resolver issues is the one list filtered by
\* X, with --folder-id F the one list filtered by F without its "folders/"
\* prefix, whatever GCP_ORGANIZATION_ID and GCP_FOLDER_ID hold.
C17_FlagOverridesEnv ==
  \A k \in 1..Len(ResolveCalls) :
    /\ args.org_id # ""
         => /\ ResolveCalls[k].verb = "list"
            /\ ResolveCalls[k].arg = <<"--filter=parent.id=", args.org_id>>
    /\ args.folder_id # <<>>
         => /\ ResolveCalls[k].verb = "list"
            /\ ResolveCalls[k].arg
                 = <<"--filter=parent.id=">> \o StripFolders(args.folder_id)

\* ---- claims about a single collector call (CollectorSpec)
\* The commands of the workload sequence of get_cluster_workloads.
WorkloadSteps == {"get-credentials", "deployments", "services", "pods"}

\* C14: when a step of the workload sequence (get-credentials, kubectl get
\* deployments, services, pods) fails with a non-zero exit for the clusters
\* of a project, the GKE collector returns no workload record at all for
\* them.
C14_AllOrNothing ==
  (/\ cpc = "returned"
   /\ call.dom = "gke"
   /\ call.cloud.fail \in WorkloadSteps
   /\ call.cloud.how = NonZero)
    => returned.workloads = <<>>

\* The record type and keys of the networking kinds that give one record
\* per listed item.
PlainKinds ==
  <<[list |-> "networks", type |-> "vpcs", keys |-> vpc_info_keys],
    [list |-> "subnets", type |-> "subnets", keys |-> subnet_info_keys],
    [list |-> "firewall-rules", type |-> "firewall_rules", keys |-> firewall_info_keys],
    [list |-> "url-maps", type |-> "load_balancers", keys |-> lb_info_http_keys],
    [list |-> "vpn-gateways", type |-> "vpn_gateways", keys |-> vpn_info_keys],
    [list |-> "managed-zones", type |-> "dns_zones", keys |-> dns_info_keys]>>

\* Every well-formed resource that a list command of the call printed has
\* its record in what the call returned.
WellFormedRecorded ==
  LET org == call.org
      proj == call.project
      w == call.cloud
  IN CASE call.dom = "compute" ->
            \A inst \in Range(Listed("compute", w)) :
              inst.wellformed
                => instance_data(org, proj, inst) \in Range(returned.inventory)
       [] call.dom = "storage" ->
            \A b \in Range(Listed("storage", w)) :
              b.wellformed
                => bucket_details(org, proj, b) \in Range(returned.buckets)
       [] call.dom = "networking" ->
            \A p \in Range(PlainKinds) :
              \A e \in Range(Listed("networking", ListOutcome(w, p.list))) :
                e.item.wellformed
                  => NetRecord(p.keys, org, proj, e) \in Range(returned[p.type])
       [] call.dom = "gke" ->
            \A e \in Range(Listed("gke",
                                  GkeOutcome(w, "clusters",
                                             [k \in 1..Len(w.clusters) |->
                                                [n |-> k, item |-> w.clusters[k]]]))) :
              e.item.wellformed
                => cluster_info(org, proj, e) \in Range(returned.clusters)

\* C15: in every collector, a resource whose processing raises is the only
\* one skipped: every well-formed resource of the project is still recorded.
C15_OnlyThatResourceSkipped == cpc = "returned" => WellFormedRecorded

\* `gsutil lifecycle get` printed text that is not JSON, or failed.
LifecycleUnreadable(bucket) == bucket.lifecycle \in {OkBad, NonZero}

\* The same cloud with an empty lifecycle configuration in the place of
\* every unreadable one.
WithEmptyLifecycle(o) ==
  [o EXCEPT !.val = Map(o.val, LAMBDA b : IF LifecycleUnreadable(b)
                                            THEN [b EXCEPT !.lifecycle = OkJson(<<>>)]
                                            ELSE b)]

\* C18: a bucket whose lifecycle-get printed non-JSON text or failed gets the
\* record it would get with an empty lifecycle configuration, and that
\* record's lifecycle_rules_count is "0".
C18_LifecycleFallback ==
  (cpc = "returned" /\ call.dom = "storage")
    => /\ returned = assess_project_storage(call.org, call.project,
                                            WithEmptyLifecycle(call.cloud))
       /\ \A b \in Range(Listed("storage", call.cloud)) :
            \A r \in Range(returned.buckets) :
              (LifecycleUnreadable(b) /\ Get(r, "bucket_name", 0) = b.name)
                => Get(r, "lifecycle_rules_count", "") = "0"

\* Two buckets were recorded: one with an unreadable lifecycle reply, one
\* with a rule.
C18_Witness ==
  /\ cpc = "returned"
  /\ call.dom = "storage"
  /\ Len(returned.buckets) = 2
  /\ \E b \in Range(Listed("storage", call.cloud)) : b.lifecycle = OkBad
  /\ \E r \in Range(returned.buckets) : Get(r, "lifecycle_rules_count", "") = "1"
  /\ \E r \in Range(returned.buckets) : Get(r, "lifecycle_rules_count", "") = "0"

\* The except clause of the project-level try of the called collector ran:
\* an exception left one of the getters it calls.
ProjectLevelError ==
  CASE call.dom = "storage" -> get_gcs_buckets_raises(call.cloud)
    [] call.dom = "networking" ->
         \E a \in 1..Len(NetSteps) : getter_raises(call.cloud, NetSteps[a])
    [] call.dom = "gke" ->
         get_gke_clusters_raises(
           GkeOutcome(call.cloud, "clusters",
                      [k \in 1..Len(call.cloud.clusters) |->
                         [n |-> k, item |-> call.cloud.clusters[k]]]))
    [] OTHER -> FALSE

\* C21: a project whose collection raised partway through hands nothing to
\* the aggregate: every list of the dict its collector returns is empty.
C21_NothingFromFailedProject ==
  (cpc = "returned" /\ ProjectLevelError)
    => \A type \in DOMAIN returned : returned[type] = <<>>

\* C22: for the two types whose header is inferred (load balancers,
\* Kubernetes workloads) a run that reaches the export with records of the
\* type completes it: the file is the key list of the first record followed
\* by one row per aggregated record, also when the records differ in keys.
C22_InferredHeaderExport ==
  ExportRan =>
    \A type \in DOMAIN files \cap {"load_balancers", "workloads"} :
      all_data[type] # <<>> =>
        /\ ~Crashed
        /\ files[type] # <<>>
        /\ files[type][1] = KeyList(all_data[type][1])
        /\ Len(files[type]) = 1 + Len(all_data[type])

\* ---- a claim about the whole suite (SuiteSpec)
\* Every lookup and validation command was issued once, every resolved
\* project was submitted once, every child process was started once.
IssuedOnce ==
  /\ \A verb \in {"auth-list", "org-describe"} :
       Cardinality({k \in 1..Len(cmds) : cmds[k].verb = verb}) <= 1
  /\ IF scope_branch(project_ids, folder_id, organization_id) = "project_ids"
       THEN /\ Len(ResolveCalls) <= Len(project_ids)
            /\ \A k \in 1..Len(ResolveCalls) :
                 ResolveCalls[k].arg = <<project_ids[k]>>
       ELSE Len(ResolveCalls) <= 1
  /\ Len(tasks) <= Len(projects)
  /\ \A t \in 1..Len(tasks) : tasks[t].project = projects[t]
  /\ \A i \in 1..Len(runs) : runs[i].started <= 1

AllHandled ==
  /\ \A t \in 1..Len(tasks) : tasks[t].st \in {"returned", "raised"}
  /\ Range(handled) = 1..Len(tasks)

\* C26: the export starts only after every submitted task has ended and was
\* handled: from the export step on, and whenever a file holds a row, no
\* task is queued or running and none is unhandled; and what was exported is
\* the export of the final aggregate.
C26_ExportAfterAll ==
  /\ (pc = "export" \/ ExportRan) => AllHandled
  /\ (\E type \in DOMAIN files : files[type] # <<>>) => AllHandled
  /\ ExportRan => files = export_data(domain, all_data).files

\* A finished run of two projects with two pool threads that wrote a file
\* with a row of each.
C26_Witness ==
  /\ pc = "done"
  /\ max_workers = 2
  /\ Len(tasks) = 2
  /\ \E type \in DOMAIN files : Len(files[type]) = 3

\* ---- more claims about a single collector call (CollectorSpec)
\* The records of a list that are about instance inst.
RecordsOf(list, inst) ==
  {k \in 1..Len(list) : Get(list[k], "instance_name", 0) = inst.name}

\* C28: in the compute collector an instance has a utilization record if and
\* only if its status is RUNNING and its inventory record was produced;
\* every utilization row has an inventory row with the same project_id,
\* instance_name and zone; and there are never more utilization than
\* inventory records.
C28_UtilizationOnlyIfRunning ==
  (cpc = "returned" /\ call.dom = "compute") =>
    /\ \A inst \in Range(Listed("compute", call.cloud)) :
         /\ Cardinality(RecordsOf(returned.utilization, inst)) <= 1
         /\ RecordsOf(returned.utilization, inst) # {}
              <=> /\ inst.status = "RUNNING"
                  /\ RecordsOf(returned.inventory, inst) # {}
    /\ \A k \in 1..Len(returned.utilization) :
         \E j \in 1..Len(returned.inventory) :
           \A f \in {"project_id", "instance_name", "zone"} :
             Get(returned.utilization[k], f, "u") = Get(returned.inventory[j], f, "i")
    /\ Len(returned.utilization) <= Len(returned.inventory)

\* Of two listed instances, one RUNNING and one TERMINATED, both have an
\* inventory record and only the first a utilization record.
C28_Witness ==
  /\ cpc = "returned"
  /\ call.dom = "compute"
  /\ Len(returned.inventory) = 2
  /\ Len(returned.utilization) = 1

\* ---- a claim about the export of a multi-type domain (ExportSpec)
\* C27: in the export of networking or GKE data every resource type with a
\* non-empty aggregate list gets its CSV file, whatever the other types hold
\* and whether or not the write of another type raised; a type with a
\* declared header gets the header and one row per record.
C27_TypesIndependent ==
  ExportRan =>
    \A type \in DOMAIN files :
      all_data[type] # <<>> =>
        /\ files[type] # <<>>
        /\ type \in DeclaredTypes => WellFormedFile(type)

\* ---- claims about the setup validator (ValidatorSpec)
ListingCommands ==
  SelectSeq(commands, LAMBDA c : c.validation = "validate_project_listing")

\* C29: the validator's project-listing check uses the branch an assessment
\* run with the same project ids, folder id and organization id resolves its
\* scope by: one describe per id, or the one list with the folder filter,
\* the organization filter or no filter.
C29_SameScopePrecedence ==
  Len(returns) >= 4 =>
    LET branch == scope_branch(venv.GCP_PROJECT_IDS, validator.folder_id,
                               validator.organization_id)
    IN /\ ListingCommands # <<>>
       /\ \A k \in 1..Len(ListingCommands) :
            IF branch = "project_ids"
              THEN /\ ListingCommands[k].verb = "describe"
                   /\ ListingCommands[k].arg = <<venv.GCP_PROJECT_IDS[k]>>
              ELSE /\ ListingCommands[k].verb = "list"
                   /\ ListingCommands[k].arg =
                        list_filter(branch, validator.folder_id, validator.organization_id)

\* C30: the validator calls all seven validations in order, exits with 0
\* exactly when every one of them returned success, and never prints that
\* all validations passed when it exits with a non-zero code.
C30_ExitMatchesSummary ==
  vpc = "done" =>
    /\ [k \in 1..Len(returns) |-> returns[k].validation] = Validations
    /\ validator_exit = 0 <=> \A k \in 1..Len(returns) : returns[k].ret = "True"
    /\ validator_exit # 0 => summary # AllPassedLine

\* ---- a claim about blocking on subprocesses (WaitSpec)
\* C24: a thread that waits for an external command is always released, by
\* the exit of the subprocess or by the timeout, so the collector call
\* completes and the assessment reaches its export and terminates, whether or
\* not the external process would ever exit on its own.
C24_AlwaysTerminates ==
  /\ (wpc = "waiting") ~> (wpc # "waiting")
  /\ <>(wpc = "done")

\* ---- a claim about concurrent GKE collectors (KubeSpec)
\* C25: with more than one worker, every workload record labelled with a
\* cluster was returned by a query that the labelled cluster answered: no
\* credential fetch of another worker comes between a worker's own
\* credential fetch and its queries.
C25_QueriedClusterIsLabelled ==
  max_workers > 1 =>
    \A w \in DOMAIN workload_data :
      \A k \in 1..Len(workload_data[w]) :
        workload_data[w][k].served_by = workload_data[w][k].cluster_name

====
